---- MODULE Spec2Model ----
(***************************************************************************)
(* DBguardian: the scheduling engine of src/app/scheduler.py.              *)
(*                                                                         *)
(*  - the schedule store (table backup_schedules) and its NOTIFY trigger,  *)
(*  - the trigger mapping celery.conf.beat_schedule and the two functions  *)
(*    that rebuild it, setup_scheduler and refresh_scheduler, statement by *)
(*    statement (every read or write of the shared mapping is one step),   *)
(*  - the change listener listen_for_schedule_changes,                     *)
(*  - start_schedule_listener.                                             *)
(*                                                                         *)
(* Python values: None is a value of its own kind (NoExpr, NoMinutes);     *)
(* a dict is a function whose DOMAIN is its key set; the key               *)
(* "backup_schedule_<id>" is represented by <id> (the format is one to one)*)
(***************************************************************************)
EXTENDS Integers, Sequences, FiniteSets, TLC

(***************************************************************************)
(* Bounds of the model.                                                    *)
(***************************************************************************)
MaxId == 2            \* schedule ids are 1..MaxId (SERIAL, never reused)
MaxMutations == 2     \* committed INSERT/UPDATE/DELETE statements
MaxApiRefresh == 2    \* refresh_scheduler calls made by the API path
MaxForeign == 1       \* NOTIFY statements issued by other clients
MaxOutages == 1       \* times the store becomes unreachable or a connection breaks
MaxStartCalls == 2    \* start_schedule_listener calls per caller
MaxInvocations == 2   \* executor invocations sent to the queue
MaxTime == 2          \* seconds of wall-clock time (the clock starts at 1)

(***************************************************************************)
(* Program constants.                                                      *)
(***************************************************************************)
ReconnectDelay == 5   \* time.sleep(5)
DefaultInterval == 60 \* interval_minutes or 60
max_retries == 30     \* init_database
retry_delay == 2      \* init_database: time.sleep(retry_delay)

Ids == 1..MaxId

(***************************************************************************)
(* Schedule rows.  interval_minutes and cron_expression are nullable.      *)
(***************************************************************************)
NoExpr == "<NULL>"
NoMinutes == 0 - 1
NoRow == [present |-> FALSE]

\* The cron expressions the model stores, with what str.split() makes of them.
CronExprs == {"0 3 1 1 1", "0 3 * * *", "x 3 * * *", NoExpr}

split(cron_expr) ==
    CASE cron_expr = "0 3 1 1 1" -> <<"0", "3", "1", "1", "1">>
      [] cron_expr = "0 3 * * *" -> <<"0", "3", "*", "*", "*">>
      [] cron_expr = "x 3 * * *" -> <<"x", "3", "*", "*", "*">>
      [] cron_expr = "0 3"       -> <<"0", "3">>
      [] OTHER                   -> << >>

\* int(value): the decimal tokens of the expressions that are parsed; any
\* other token raises ValueError.
IntTokens == {"0", "1", "3", "60", "-1"}
int(value) ==
    CASE value = "0" -> 0 [] value = "1" -> 1 [] value = "3" -> 3
      [] value = "60" -> 60 [] value = "-1" -> 0 - 1 [] OTHER -> 0

\* A row as the column values that the scheduler reads.
RowTemplates ==
    { [present |-> TRUE, schedule_type |-> "interval", interval_minutes |-> m,
       cron_expression |-> NoExpr, enabled |-> e] : m \in {30, NoMinutes}, e \in BOOLEAN }
    \cup
    { [present |-> TRUE, schedule_type |-> "crontab", interval_minutes |-> NoMinutes,
       cron_expression |-> c, enabled |-> e] : c \in CronExprs, e \in BOOLEAN }

\* Interval rows with every kind of interval length, stored zero included,
\* beside enabled cron rows.
IntervalTemplates ==
    { [present |-> TRUE, schedule_type |-> "interval", interval_minutes |-> m,
       cron_expression |-> NoExpr, enabled |-> e] : m \in {0, 30, NoMinutes}, e \in BOOLEAN }
    \cup
    { r \in RowTemplates : /\ r.schedule_type = "crontab" /\ r.enabled
                           /\ r.cron_expression \in {"0 3 1 1 1", "0 3 * * *"} }

\* The rows that the mutations of the whole system write: an interval schedule,
\* enabled or not, and an enabled cron schedule.
CoreTemplates ==
    { r \in RowTemplates : \/ r.schedule_type = "interval" /\ r.interval_minutes = 30
                           \/ r.cron_expression = "0 3 * * *" /\ r.enabled }

(***************************************************************************)
(* celery.schedules.crontab as parse_cron_expression calls it: every field *)
(* is an int or None.  __init__ expands hour, minute, day_of_week,         *)
(* day_of_month and month_of_year in this order.  _expand_cronspec accepts *)
(* an int, a str, a set or an iterable; None is none of these and raises   *)
(* TypeError; an int outside the field's range raises ValueError.          *)
(***************************************************************************)
NoneField == [none |-> TRUE]
IntField(n) == [none |-> FALSE, n |-> n]

InRange(f, lo, hi) == f.n >= lo /\ f.n <= hi

_expand_cronspec(cronspec, lo, hi) ==
    IF cronspec.none
    THEN [kind |-> "TypeError", message |-> <<"Argument cronspec needs to be of any of the following types: int, str, or an iterable type. NoneType was given.">>]
    ELSE IF InRange(cronspec, lo, hi)
    THEN [kind |-> "set"]
    ELSE [kind |-> "ValueError", message |-> <<"Invalid crontab pattern. Valid range is ", lo, hi, cronspec.n>>]

crontab(minute, hour, day_of_month, month_of_year, day_of_week) ==
    LET expanded == <<_expand_cronspec(hour, 0, 23),
                      _expand_cronspec(minute, 0, 59),
                      _expand_cronspec(day_of_week, 0, 6),
                      _expand_cronspec(day_of_month, 1, 31),
                      _expand_cronspec(month_of_year, 1, 12)>>
        raised == {k \in 1..5 : expanded[k].kind # "set"}
    IN IF raised = {}
       THEN [kind |-> "crontab", minute |-> minute.n, hour |-> hour.n,
             day_of_month |-> day_of_month.n, month_of_year |-> month_of_year.n,
             day_of_week |-> day_of_week.n]
       ELSE expanded[CHOOSE k \in raised : \A other \in raised : k <= other]

convert_to_int_or_none(value) ==
    IF value # "*"
    THEN (IF value \in IntTokens
          THEN IntField(int(value))
          ELSE [none |-> FALSE, bad |-> TRUE, value |-> value])
    ELSE NoneField

IsBadField(f) == "bad" \in DOMAIN f

\* Lines 101-117: the fields once split, for the expression cron_expr: a
\* crontab, or the exception that is raised.  The arguments of crontab(...)
\* are evaluated first, minute to day_of_week.
parse_fields(parts, cron_expr) ==
    IF Len(parts) # 5
    THEN [kind |-> "ValueError", message |-> <<"Invalid cron expression: ", cron_expr>>]
    ELSE LET f == [i \in 1..5 |-> convert_to_int_or_none(parts[i])]
             bad == {i \in 1..5 : IsBadField(f[i])}
         IN IF bad # {}
            THEN [kind |-> "ValueError",
                  message |-> <<"invalid literal for int() with base 10: ",
                                f[CHOOSE i \in bad : \A other \in bad : i <= other].value>>]
            ELSE crontab(f[1], f[2], f[3], f[4], f[5])

\* parse_cron_expression: a crontab, or the exception it raises.
parse_cron_expression(cron_expr) == parse_fields(split(cron_expr), cron_expr)

(***************************************************************************)
(* State.                                                                  *)
(***************************************************************************)
VARIABLES
    store,            \* backup_schedules: id -> row, or NoRow
    nextId,           \* the SERIAL sequence of backup_schedules.id
    dbUp,             \* the store accepts connections
    beat_schedule,    \* celery.conf.beat_schedule: the trigger mapping
    pc,               \* thread -> the statement it is at
    old_schedule,     \* thread -> refresh_scheduler's local old_schedule
    schedules,        \* thread -> the local list returned by get_active_schedules
    idx,              \* thread -> position of the for loop in schedules
    reload_tmp,       \* thread -> dict(celery.conf.beat_schedule), built, not yet assigned
    ret,              \* thread -> what its refresh_scheduler call returned
    lpc,              \* the listener thread's position in listen_for_schedule_changes
    connUp,           \* the listener's connection is usable
    subscribed,       \* the server delivers schedule_changes to the listener's session
    channel,          \* notifications delivered to the session, not polled yet
    notifies,         \* conn.notifies
    data,             \* the payload the listener is handling
    sleepLeft,        \* what remains of time.sleep(5)
    listener_thread,  \* the global _listener_thread: a thread object, or 0 for None
    created,          \* thread objects created so far
    alive,            \* thread objects whose start() ran (a listener never returns)
    \* history variables, read by the properties only
    storeVer,         \* number of committed mutations
    readVer,          \* storeVer at the latest successful read of a rebuild
    read,             \* thread -> what its call found in the store
    prevVer,          \* storeVer read by the latest returned refresh if it returned True, else -1
    excepted,         \* the listener has been through its except clause
    lastHandled,      \* how the listener's latest notification ended
    apiCalls, foreign, outages, startCalls,  \* counters for the bounds
    \* the backup executor (src/app/tasks.py) and trigger_backup_for_schedule
    key_source,       \* which of BACKUP_ENCRYPTION_KEY / BACKUP_ENCRYPTION_PASSWORD is set
    now,              \* datetime.now(), in whole seconds
    last_run,         \* backup_schedules.last_run: id -> time, 0 for NULL
    tpc,              \* position of the trigger_backup_for_schedule call in progress
    trig,             \* that call: its argument, and what the route answered last
    queue,            \* invocations sent with delay(), not yet taken by the worker
    sent,             \* number of invocations sent so far (task ids are 1..sent)
    task_state,       \* task id -> state kept by update_state
    task_meta,        \* task id -> meta kept by update_state
    outcome,          \* task id -> how the task function ended
    cur,              \* the invocation the worker runs: [task, schedule_id], or NoTask
    epc,              \* the worker's position in backup_database_task
    backup_name,      \* local backup_name of the running invocation
    temp_files,       \* files in the invocation's temporary directory: path -> bytes
    storage,          \* locals storage_type and storage_location
    exc,              \* the exception being propagated
    minio,            \* primary store: object name -> bytes
    fallback,         \* fallback directory: path -> bytes
    backups,          \* table backups: sequence of rows
    dumps,            \* history: task ids for which pg_dump was run
    stderr,           \* history: task id -> what pg_dump wrote to stderr when it exited non-zero
    \* delete_backup (src/app/routes/backups.py) and list_backups
    dpc,              \* position of the delete_backup call in progress
    filename,         \* its path parameter, as path segments
    deleted_from_storage,  \* its local of that name
    response,         \* what the latest delete_backup call answered
    purge,            \* history: how the metadata clean-up of that call ended
    deleted_in,       \* history: the store that call deleted from
    listing,          \* what the latest list_backups call returned
    list_request,     \* history: its argument and what the primary store listed
    \* parse_cron_expression called on its own
    parse_arg,        \* the argument of the latest call
    parse_result,     \* what the call returned or raised
    \* init_database (src/app/database/connection.py)
    ipc,              \* position of init_database
    attempt,          \* its loop variable
    slept,            \* history: the time.sleep() calls it made, in order
    tried             \* history: how each of its attempts ended, in order

storeVars == <<store, nextId, dbUp, storeVer, outages>>
refreshVars == <<pc, old_schedule, schedules, idx, reload_tmp, ret, read, readVer,
                 prevVer, apiCalls>>
listenerVars == <<lpc, connUp, subscribed, channel, notifies, data, sleepLeft,
                  lastHandled, foreign, excepted>>
startVars == <<listener_thread, created, alive, startCalls>>
triggerVars == <<tpc, trig, queue, sent, last_run>>
workerVars == <<task_state, task_meta, outcome, cur, epc, backup_name, temp_files, storage,
                exc, dumps, stderr>>
artifactVars == <<minio, fallback, backups>>
routeVars == <<dpc, filename, deleted_from_storage, response, purge, deleted_in, listing,
               list_request>>
parseVars == <<parse_arg, parse_result>>
bootVars == <<ipc, attempt, slept, tried>>
otherVars == <<routeVars, parseVars, bootVars>>
execVars == <<key_source, otherVars, now, triggerVars, workerVars, artifactVars>>
vars == <<storeVars, beat_schedule, refreshVars, listenerVars, startVars, execVars>>

Threads == {"main", "listener", "api", "other"}
Refreshers == {"listener", "api"}

EmptyDict == << >>
NoRead == [ok |-> FALSE, ids |-> {}, ver |-> 0, start |-> 0]
NoData == [kind |-> "none"]

(***************************************************************************)
(* get_active_schedules: the enabled rows, in the order the server returns *)
(* them (the SELECT has no ORDER BY); [] when the store cannot be read.    *)
(***************************************************************************)
\* The query without its WHERE enabled = true.
EnabledIds_All(st) == {i \in Ids : st[i].present}

EnabledIds(st) == {i \in Ids : st[i].present /\ st[i].enabled}

RowDict(st, i) ==
    [id |-> i, schedule_type |-> st[i].schedule_type,
     interval_minutes |-> st[i].interval_minutes,
     cron_expression |-> st[i].cron_expression]

Orderings(S) ==
    {f \in [1..Cardinality(S) -> S] : \A i, j \in 1..Cardinality(S) : i # j => f[i] # f[j]}

\* The function, were it to return the rows whether or not the store can be
\* read.
get_active_schedules_Cached(st, up) ==
    {[k \in 1..Len(o) |-> RowDict(st, o[k])] : o \in Orderings(EnabledIds(st))}

get_active_schedules(st, up) ==
    IF up
    THEN {[k \in 1..Len(o) |-> RowDict(st, o[k])] : o \in Orderings(EnabledIds(st))}
    ELSE {<< >>}

(***************************************************************************)
(* The body of the for loop of refresh_scheduler (and of setup_scheduler,  *)
(* which has the same body): the entry to register, nothing (a row that is *)
(* skipped), or the exception that leaves the loop.                        *)
(***************************************************************************)
Entry(id, rule) ==
    [task |-> "app.tasks.backup_database_task", schedule |-> rule, args |-> <<id>>]

timedelta(minutes) == [kind |-> "timedelta", minutes |-> minutes]

TranslateRow_NoCatch(schedule) ==
    IF schedule.schedule_type = "interval"
    THEN [kind |-> "entry",
          entry |-> Entry(schedule.id,
                          timedelta(IF schedule.interval_minutes \in {NoMinutes, 0}
                                    THEN DefaultInterval ELSE schedule.interval_minutes))]
    ELSE IF schedule.schedule_type = "crontab"
    THEN IF schedule.cron_expression \notin {NoExpr, ""}
         THEN LET cron_schedule == parse_cron_expression(schedule.cron_expression) IN
                IF cron_schedule.kind = "crontab"
                THEN [kind |-> "entry", entry |-> Entry(schedule.id, cron_schedule)]
                ELSE [kind |-> "raise", error |-> cron_schedule.kind]
         ELSE [kind |-> "skip"]
    ELSE [kind |-> "skip"]

\* The loop body, were it to pass interval_minutes on as it is stored.
TranslateRow_NoDefault(schedule) ==
    IF schedule.schedule_type = "interval"
    THEN [kind |-> "entry",
          entry |-> Entry(schedule.id, timedelta(schedule.interval_minutes))]
    ELSE IF schedule.schedule_type = "crontab"
    THEN IF schedule.cron_expression \notin {NoExpr, ""}
         THEN LET cron_schedule == parse_cron_expression(schedule.cron_expression) IN
                IF cron_schedule.kind = "crontab"
                THEN [kind |-> "entry", entry |-> Entry(schedule.id, cron_schedule)]
                ELSE IF cron_schedule.kind = "ValueError"
                THEN [kind |-> "skip"]
                ELSE [kind |-> "raise", error |-> cron_schedule.kind]
         ELSE [kind |-> "skip"]
    ELSE [kind |-> "skip"]

TranslateRow(schedule) ==
    IF schedule.schedule_type = "interval"
    THEN [kind |-> "entry",
          entry |-> Entry(schedule.id,
                          timedelta(IF schedule.interval_minutes \in {NoMinutes, 0}
                                    THEN DefaultInterval ELSE schedule.interval_minutes))]
    ELSE IF schedule.schedule_type = "crontab"
    THEN IF schedule.cron_expression \notin {NoExpr, ""}
         THEN LET cron_schedule == parse_cron_expression(schedule.cron_expression) IN
                IF cron_schedule.kind = "crontab"
                THEN [kind |-> "entry", entry |-> Entry(schedule.id, cron_schedule)]
                ELSE IF cron_schedule.kind = "ValueError"
                THEN [kind |-> "skip"]
                ELSE [kind |-> "raise", error |-> cron_schedule.kind]
         ELSE [kind |-> "skip"]
    ELSE [kind |-> "skip"]

Put(d, k, v) == [x \in (DOMAIN d) \cup {k} |-> IF x = k THEN v ELSE d[x]]

\* The mapping a complete rebuild makes of a list of rows: the rows that
\* translate, each with its entry.
Translatable(rows) == {k \in 1..Len(rows) : TranslateRow(rows[k]).kind = "entry"}

Rebuilt(rows) ==
    [i \in {rows[k].id : k \in Translatable(rows)} |->
        TranslateRow(rows[CHOOSE k \in Translatable(rows) : rows[k].id = i]).entry]

\* The for loop of refresh_scheduler run on the list rows from the mapping d,
\* with nothing else running: the mapping it leaves, whether it reaches the
\* end of the list or is left by an exception.
RECURSIVE RefreshLoopResult(_, _)
RefreshLoopResult(rows, d) ==
    IF rows = << >>
    THEN d
    ELSE LET r == TranslateRow(Head(rows)) IN
           CASE r.kind = "entry" -> RefreshLoopResult(Tail(rows), Put(d, Head(rows).id, r.entry))
             [] r.kind = "skip"  -> RefreshLoopResult(Tail(rows), d)
             [] OTHER            -> d

\* The lists in which the server may return the rows of the list rows.
Reorderings(rows) ==
    {[k \in 1..Len(rows) |-> rows[o[k]]] : o \in Orderings(1..Len(rows))}

(***************************************************************************)
(* The store: committed mutations of backup_schedules.  The row trigger    *)
(* schedule_change_trigger sends one notification per row, which reaches   *)
(* the sessions that are listening at commit time and no other.            *)
(***************************************************************************)
Payload(action, id, enabled) ==
    [kind |-> "object", action |-> action, schedule_id |-> id, enabled |-> enabled]

pg_notify(payload) ==
    IF subscribed /\ connUp THEN Append(channel, payload) ELSE channel

Commit(newStore, payload) ==
    /\ dbUp
    /\ storeVer < MaxMutations
    /\ store' = newStore
    /\ storeVer' = storeVer + 1
    /\ channel' = pg_notify(payload)
    /\ UNCHANGED execVars

InsertRow(T) ==
    /\ nextId <= MaxId
    /\ \E r \in T :
          Commit([store EXCEPT ![nextId] = r], Payload("inserted", nextId, r.enabled))
    /\ nextId' = nextId + 1
    /\ UNCHANGED <<dbUp, outages, beat_schedule, refreshVars, startVars>>
    /\ UNCHANGED <<lpc, connUp, subscribed, notifies, data, sleepLeft, lastHandled, foreign, excepted>>

UpdateRow(T) ==
    /\ \E i \in Ids, r \in T :
          /\ store[i].present
          /\ Commit([store EXCEPT ![i] = r], Payload("updated", i, r.enabled))
    /\ UNCHANGED <<nextId, dbUp, outages, beat_schedule, refreshVars, startVars>>
    /\ UNCHANGED <<lpc, connUp, subscribed, notifies, data, sleepLeft, lastHandled, foreign, excepted>>

DeleteRow ==
    /\ \E i \in Ids :
          /\ store[i].present
          /\ Commit([store EXCEPT ![i] = NoRow], Payload("deleted", i, store[i].enabled))
    /\ UNCHANGED <<nextId, dbUp, outages, beat_schedule, refreshVars, startVars>>
    /\ UNCHANGED <<lpc, connUp, subscribed, notifies, data, sleepLeft, lastHandled, foreign, excepted>>

\* Any session may NOTIFY schedule_changes with a payload of its own: text
\* that is no JSON, or JSON that is no object.
ForeignNotify ==
    /\ dbUp
    /\ foreign < MaxForeign
    /\ foreign' = foreign + 1
    /\ \E k \in {"not json", "json, not an object"} : channel' = pg_notify([kind |-> k])
    /\ UNCHANGED <<storeVars, beat_schedule, refreshVars, startVars>>
    /\ UNCHANGED <<lpc, connUp, subscribed, notifies, data, sleepLeft, lastHandled, excepted>>
    /\ UNCHANGED execVars

\* The store becomes unreachable: every session ends, and what the server
\* had sent and the client had not read is gone with it.
StoreDown ==
    /\ dbUp
    /\ outages < MaxOutages
    /\ dbUp' = FALSE
    /\ outages' = outages + 1
    /\ connUp' = FALSE
    /\ subscribed' = FALSE
    /\ channel' = << >>
    /\ UNCHANGED <<store, nextId, storeVer, beat_schedule, refreshVars, startVars>>
    /\ UNCHANGED <<lpc, notifies, data, sleepLeft, lastHandled, foreign, excepted>>
    /\ UNCHANGED execVars

StoreUp ==
    /\ ~dbUp
    /\ dbUp' = TRUE
    /\ UNCHANGED <<store, nextId, storeVer, outages, beat_schedule, refreshVars,
                   listenerVars, startVars>>
    /\ UNCHANGED execVars

\* The listener's connection breaks while the store stays up.
ConnDrop ==
    /\ connUp
    /\ outages < MaxOutages
    /\ outages' = outages + 1
    /\ connUp' = FALSE
    /\ subscribed' = FALSE
    /\ channel' = << >>
    /\ UNCHANGED <<store, nextId, dbUp, storeVer, beat_schedule, refreshVars, startVars>>
    /\ UNCHANGED <<lpc, notifies, data, sleepLeft, lastHandled, foreign, excepted>>
    /\ UNCHANGED execVars

(***************************************************************************)
(* refresh_scheduler, one step per access to the shared mapping.           *)
(*    "clear"        celery.conf.beat_schedule = {}                        *)
(*    "fetch"        schedules = get_active_schedules()                    *)
(*    "loop"         one iteration of the for loop                         *)
(*    "diff"         the comparison of old_schedule with the mapping       *)
(*    "reload_read"  dict(celery.conf.beat_schedule), the right-hand side  *)
(*    "reload_write" celery.conf.beat_schedule = <that copy>               *)
(*    "ret"          the call has returned ret[t]                          *)
(* The threads take their steps in any order: nothing in the function      *)
(* holds a lock.                                                           *)
(***************************************************************************)

\* old_schedule = celery.conf.beat_schedule.copy(), the first statement.
Enter(t) ==
    /\ pc' = [pc EXCEPT ![t] = "clear"]
    /\ old_schedule' = [old_schedule EXCEPT ![t] = beat_schedule]
    /\ ret' = [ret EXCEPT ![t] = "none"]
    /\ read' = [read EXCEPT ![t] = [NoRead EXCEPT !.start = storeVer]]

ApiRefresh ==
    /\ pc["api"] = "idle"
    /\ apiCalls < MaxApiRefresh
    /\ apiCalls' = apiCalls + 1
    /\ Enter("api")
    /\ UNCHANGED <<storeVars, beat_schedule, listenerVars, startVars>>
    /\ UNCHANGED <<schedules, idx, reload_tmp, readVer, prevVer>>
    /\ UNCHANGED execVars

RefreshClear(t) ==
    /\ pc[t] = "clear"
    /\ beat_schedule' = EmptyDict
    /\ pc' = [pc EXCEPT ![t] = "fetch"]
    /\ UNCHANGED <<storeVars, listenerVars, startVars>>
    /\ UNCHANGED <<old_schedule, schedules, idx, reload_tmp, ret, read, readVer, prevVer,
                   apiCalls>>
    /\ UNCHANGED execVars

Fetch(t, next) ==
    /\ \E rows \in get_active_schedules(store, dbUp) :
          schedules' = [schedules EXCEPT ![t] = rows]
    /\ idx' = [idx EXCEPT ![t] = 1]
    /\ read' = [read EXCEPT ![t] = [ok |-> dbUp, ids |-> EnabledIds(store), ver |-> storeVer,
                                    start |-> read[t].start]]
    /\ readVer' = IF dbUp THEN storeVer ELSE readVer
    /\ pc' = [pc EXCEPT ![t] = next]

RefreshFetch(t) ==
    /\ pc[t] = "fetch"
    /\ Fetch(t, "loop")
    /\ UNCHANGED <<storeVars, beat_schedule, listenerVars, startVars>>
    /\ UNCHANGED <<old_schedule, reload_tmp, ret, prevVer, apiCalls>>
    /\ UNCHANGED execVars

\* The outcome of one iteration: the mapping and whether the loop goes on.
Iterate(t) == TranslateRow(schedules[t][idx[t]])

Return(t, value) ==
    /\ pc' = [pc EXCEPT ![t] = "ret"]
    /\ ret' = [ret EXCEPT ![t] = value]

\* One iteration, were the handler at lines 243-245 to put the previous
\* mapping back before it returns False.
RefreshLoop_Restores(t) ==
    /\ pc[t] = "loop"
    /\ idx[t] <= Len(schedules[t])
    /\ LET r == Iterate(t) IN
         \/ /\ r.kind = "entry"
            /\ beat_schedule' = Put(beat_schedule, schedules[t][idx[t]].id, r.entry)
            /\ idx' = [idx EXCEPT ![t] = @ + 1]
            /\ UNCHANGED <<pc, ret>>
         \/ /\ r.kind = "skip"
            /\ idx' = [idx EXCEPT ![t] = @ + 1]
            /\ UNCHANGED <<beat_schedule, pc, ret>>
         \/ /\ r.kind = "raise"
            /\ Return(t, "False")
            /\ beat_schedule' = old_schedule[t]
            /\ UNCHANGED idx
    /\ UNCHANGED <<storeVars, listenerVars, startVars>>
    /\ UNCHANGED <<old_schedule, schedules, reload_tmp, read, readVer, prevVer,
                   apiCalls>>
    /\ UNCHANGED execVars

RefreshLoop(t) ==
    /\ pc[t] = "loop"
    /\ idx[t] <= Len(schedules[t])
    /\ LET r == Iterate(t) IN
         \/ /\ r.kind = "entry"
            /\ beat_schedule' = Put(beat_schedule, schedules[t][idx[t]].id, r.entry)
            /\ idx' = [idx EXCEPT ![t] = @ + 1]
            /\ UNCHANGED <<pc, ret>>
         \/ /\ r.kind = "skip"
            /\ idx' = [idx EXCEPT ![t] = @ + 1]
            /\ UNCHANGED <<beat_schedule, pc, ret>>
         \/ \* an exception that the inner try does not catch: except Exception, return False
            /\ r.kind = "raise"
            /\ Return(t, "False")
            /\ UNCHANGED <<beat_schedule, idx>>
    /\ UNCHANGED <<storeVars, listenerVars, startVars>>
    /\ UNCHANGED <<old_schedule, schedules, reload_tmp, read, readVer, prevVer,
                   apiCalls>>
    /\ UNCHANGED execVars

\* The end of the loop, were refresh_scheduler to write to the rows it
\* registered (an UPDATE of backup_schedules, which fires the row trigger).
RefreshLoopEnd_Writes(t) ==
    /\ pc[t] = "loop"
    /\ idx[t] > Len(schedules[t])
    /\ pc' = [pc EXCEPT ![t] = "diff"]
    /\ channel' = IF dbUp /\ schedules[t] # << >>
                  THEN pg_notify(Payload("updated", schedules[t][1].id, TRUE))
                  ELSE channel
    /\ UNCHANGED <<storeVars, beat_schedule, startVars>>
    /\ UNCHANGED <<lpc, connUp, subscribed, notifies, data, sleepLeft, lastHandled, foreign,
                   excepted>>
    /\ UNCHANGED <<old_schedule, schedules, idx, reload_tmp, ret, read, readVer, prevVer,
                   apiCalls>>
    /\ UNCHANGED execVars

RefreshLoopEnd(t) ==
    /\ pc[t] = "loop"
    /\ idx[t] > Len(schedules[t])
    /\ pc' = [pc EXCEPT ![t] = "diff"]
    /\ UNCHANGED <<storeVars, beat_schedule, listenerVars, startVars>>
    /\ UNCHANGED <<old_schedule, schedules, idx, reload_tmp, ret, read, readVer, prevVer,
                   apiCalls>>
    /\ UNCHANGED execVars

schedule_changed(old, new) ==
    IF Cardinality(DOMAIN old) # Cardinality(DOMAIN new)
    THEN TRUE
    ELSE \E key \in DOMAIN old : key \notin DOMAIN new \/ old[key] # new[key]

RefreshDiff(t) ==
    /\ pc[t] = "diff"
    /\ IF schedule_changed(old_schedule[t], beat_schedule)
       THEN pc' = [pc EXCEPT ![t] = "reload_read"] /\ UNCHANGED ret
       ELSE Return(t, "True")
    /\ UNCHANGED <<storeVars, beat_schedule, listenerVars, startVars>>
    /\ UNCHANGED <<old_schedule, schedules, idx, reload_tmp, read, readVer, prevVer,
                   apiCalls>>
    /\ UNCHANGED execVars

RefreshReloadRead(t) ==
    /\ pc[t] = "reload_read"
    /\ reload_tmp' = [reload_tmp EXCEPT ![t] = beat_schedule]
    /\ pc' = [pc EXCEPT ![t] = "reload_write"]
    /\ UNCHANGED <<storeVars, beat_schedule, listenerVars, startVars>>
    /\ UNCHANGED <<old_schedule, schedules, idx, ret, read, readVer, prevVer,
                   apiCalls>>
    /\ UNCHANGED execVars

RefreshReloadWrite(t) ==
    /\ pc[t] = "reload_write"
    /\ beat_schedule' = reload_tmp[t]
    /\ Return(t, "True")
    /\ UNCHANGED <<storeVars, listenerVars, startVars>>
    /\ UNCHANGED <<old_schedule, schedules, idx, reload_tmp, read, readVer, prevVer,
                   apiCalls>>
    /\ UNCHANGED execVars

\* The caller has the result: the frame of the call is gone.
Leave(t) ==
    /\ pc' = [pc EXCEPT ![t] = "idle"]
    /\ old_schedule' = [old_schedule EXCEPT ![t] = EmptyDict]
    /\ schedules' = [schedules EXCEPT ![t] = << >>]
    /\ idx' = [idx EXCEPT ![t] = 1]
    /\ reload_tmp' = [reload_tmp EXCEPT ![t] = EmptyDict]
    /\ prevVer' = IF ret[t] = "True" THEN read[t].ver ELSE 0 - 1
    /\ read' = [read EXCEPT ![t] = NoRead]

\* refresh_schedules (POST /schedules/refresh) reports the result.
ApiReturn ==
    /\ pc["api"] = "ret"
    /\ Leave("api")
    /\ UNCHANGED <<storeVars, beat_schedule, listenerVars, startVars>>
    /\ UNCHANGED <<ret, readVer, apiCalls>>
    /\ UNCHANGED execVars

(***************************************************************************)
(* setup_scheduler, called once by setup_periodic_tasks on the thread      *)
(* "main".  It has no try of its own around the loop: an exception that    *)
(* the inner try does not catch reaches setup_periodic_tasks, which logs   *)
(* it and does not start the listener.                                     *)
(***************************************************************************)
SetupClear ==
    /\ pc["main"] = "setup_clear"
    /\ beat_schedule' = EmptyDict
    /\ pc' = [pc EXCEPT !["main"] = "setup_fetch"]
    /\ UNCHANGED <<storeVars, listenerVars, startVars>>
    /\ UNCHANGED <<old_schedule, schedules, idx, reload_tmp, ret, read, readVer, prevVer,
                   apiCalls>>
    /\ UNCHANGED execVars

SetupFetch ==
    /\ pc["main"] = "setup_fetch"
    /\ Fetch("main", "setup_loop")
    /\ UNCHANGED <<storeVars, beat_schedule, listenerVars, startVars>>
    /\ UNCHANGED <<old_schedule, reload_tmp, ret, prevVer, apiCalls>>
    /\ UNCHANGED execVars

\* One iteration, were setup_periodic_tasks to go on to
\* start_schedule_listener after an exception of setup_scheduler.
SetupLoop_StartsAnyway ==
    /\ pc["main"] = "setup_loop"
    /\ idx["main"] <= Len(schedules["main"])
    /\ LET r == Iterate("main") IN
         \/ /\ r.kind = "entry"
            /\ beat_schedule' = Put(beat_schedule, schedules["main"][idx["main"]].id, r.entry)
            /\ idx' = [idx EXCEPT !["main"] = @ + 1]
            /\ UNCHANGED <<pc, schedules, read>>
         \/ /\ r.kind = "skip"
            /\ idx' = [idx EXCEPT !["main"] = @ + 1]
            /\ UNCHANGED <<beat_schedule, pc, schedules, read>>
         \/ /\ r.kind = "raise"
            /\ pc' = [pc EXCEPT !["main"] = "start_check"]
            /\ schedules' = [schedules EXCEPT !["main"] = << >>]
            /\ idx' = [idx EXCEPT !["main"] = 1]
            /\ read' = [read EXCEPT !["main"] = NoRead]
            /\ UNCHANGED beat_schedule
    /\ UNCHANGED <<storeVars, listenerVars, startVars>>
    /\ UNCHANGED <<old_schedule, reload_tmp, ret, readVer, prevVer, apiCalls>>
    /\ UNCHANGED execVars

SetupLoop ==
    /\ pc["main"] = "setup_loop"
    /\ idx["main"] <= Len(schedules["main"])
    /\ LET r == Iterate("main") IN
         \/ /\ r.kind = "entry"
            /\ beat_schedule' = Put(beat_schedule, schedules["main"][idx["main"]].id, r.entry)
            /\ idx' = [idx EXCEPT !["main"] = @ + 1]
            /\ UNCHANGED <<pc, schedules, read>>
         \/ /\ r.kind = "skip"
            /\ idx' = [idx EXCEPT !["main"] = @ + 1]
            /\ UNCHANGED <<beat_schedule, pc, schedules, read>>
         \/ /\ r.kind = "raise"
            /\ pc' = [pc EXCEPT !["main"] = "done"]
            /\ schedules' = [schedules EXCEPT !["main"] = << >>]
            /\ idx' = [idx EXCEPT !["main"] = 1]
            /\ read' = [read EXCEPT !["main"] = NoRead]
            /\ UNCHANGED beat_schedule
    /\ UNCHANGED <<storeVars, listenerVars, startVars>>
    /\ UNCHANGED <<old_schedule, reload_tmp, ret, readVer, prevVer, apiCalls>>
    /\ UNCHANGED execVars

\* setup_scheduler has returned; setup_periodic_tasks calls start_schedule_listener.
SetupLoopEnd ==
    /\ pc["main"] = "setup_loop"
    /\ idx["main"] > Len(schedules["main"])
    /\ pc' = [pc EXCEPT !["main"] = "start_check"]
    /\ schedules' = [schedules EXCEPT !["main"] = << >>]
    /\ idx' = [idx EXCEPT !["main"] = 1]
    /\ read' = [read EXCEPT !["main"] = NoRead]
    /\ UNCHANGED <<storeVars, beat_schedule, listenerVars, startVars>>
    /\ UNCHANGED <<old_schedule, reload_tmp, ret, readVer, prevVer, apiCalls>>
    /\ UNCHANGED execVars

(***************************************************************************)
(* start_schedule_listener, by the thread c.  The test of _listener_thread,*)
(* the assignment of the new Thread and the call of start() on whatever    *)
(* _listener_thread then holds are three steps.  Thread.start() on a       *)
(* thread that was started raises RuntimeError.                            *)
(***************************************************************************)
StartCall(c) ==
    /\ pc[c] \in {"idle", "done"}
    /\ startCalls[c] < MaxStartCalls
    /\ startCalls' = [startCalls EXCEPT ![c] = @ + 1]
    /\ pc' = [pc EXCEPT ![c] = "start_check"]
    /\ UNCHANGED <<storeVars, beat_schedule, listenerVars>>
    /\ UNCHANGED <<listener_thread, created, alive>>
    /\ UNCHANGED <<old_schedule, schedules, idx, reload_tmp, ret, read, readVer, prevVer,
                   apiCalls>>
    /\ UNCHANGED execVars

NeedsListener == listener_thread = 0 \/ listener_thread \notin alive

StartCheck(c) ==
    /\ pc[c] = "start_check"
    /\ pc' = [pc EXCEPT ![c] = IF NeedsListener THEN "start_create" ELSE "done"]
    /\ UNCHANGED <<storeVars, beat_schedule, listenerVars, startVars>>
    /\ UNCHANGED <<old_schedule, schedules, idx, reload_tmp, ret, read, readVer, prevVer,
                   apiCalls>>
    /\ UNCHANGED execVars

StartCreate(c) ==
    /\ pc[c] = "start_create"
    /\ created' = created + 1
    /\ listener_thread' = created + 1
    /\ pc' = [pc EXCEPT ![c] = "start_run"]
    /\ UNCHANGED <<storeVars, beat_schedule, listenerVars>>
    /\ UNCHANGED <<alive, startCalls>>
    /\ UNCHANGED <<old_schedule, schedules, idx, reload_tmp, ret, read, readVer, prevVer,
                   apiCalls>>
    /\ UNCHANGED execVars

StartRun(c) ==
    /\ pc[c] = "start_run"
    /\ pc' = [pc EXCEPT ![c] = "done"]
    /\ IF listener_thread \in alive
       THEN UNCHANGED <<alive, lpc>>           \* RuntimeError
       ELSE /\ alive' = alive \cup {listener_thread}
            /\ lpc' = IF lpc = "off" THEN "connect" ELSE lpc
    /\ UNCHANGED <<storeVars, beat_schedule>>
    /\ UNCHANGED <<listener_thread, created, startCalls>>
    /\ UNCHANGED <<connUp, subscribed, channel, notifies, data, sleepLeft, lastHandled,
                   foreign, excepted>>
    /\ UNCHANGED <<old_schedule, schedules, idx, reload_tmp, ret, read, readVer, prevVer,
                   apiCalls>>
    /\ UNCHANGED execVars

(***************************************************************************)
(* listen_for_schedule_changes.                                            *)
(*    "connect"  get_db_connection, set_isolation_level, LISTEN            *)
(*    "select"   select.select([conn], [], [], 60)                         *)
(*    "drain"    while conn.notifies                                       *)
(*    "refresh"  inside refresh_scheduler (the steps of thread "listener") *)
(*    "sleep"    except Exception: time.sleep(5)                           *)
(*    "close"    finally: conn.close()                                     *)
(***************************************************************************)

\* except Exception as e: logger.error(...); time.sleep(5)
ListenerExcept_Exits ==
    /\ lpc' = "exited"
    /\ sleepLeft' = sleepLeft
    /\ excepted' = TRUE

ListenerExcept ==
    /\ lpc' = "sleep"
    /\ sleepLeft' = ReconnectDelay
    /\ excepted' = TRUE

ListenerConnect ==
    /\ lpc = "connect"
    /\ IF dbUp
       THEN /\ connUp' = TRUE
            /\ subscribed' = TRUE
            /\ lpc' = "select"
            /\ UNCHANGED <<sleepLeft, excepted>>
       ELSE /\ ListenerExcept
            /\ UNCHANGED <<connUp, subscribed>>
    /\ channel' = << >>
    /\ notifies' = << >>
    /\ UNCHANGED <<storeVars, beat_schedule, refreshVars, startVars>>
    /\ UNCHANGED <<data, lastHandled, foreign>>
    /\ UNCHANGED execVars

\* select times out after 60 with nothing to read: cursor.execute("SELECT 1;")
ListenerKeepalive ==
    /\ lpc = "select"
    /\ channel = << >>
    /\ IF connUp
       THEN UNCHANGED <<lpc, sleepLeft, excepted>>
       ELSE ListenerExcept
    /\ UNCHANGED <<storeVars, beat_schedule, refreshVars, startVars>>
    /\ UNCHANGED <<connUp, subscribed, channel, notifies, data, lastHandled, foreign>>
    /\ UNCHANGED execVars

\* select reports the socket readable (data, or the end of the connection): conn.poll()
ListenerPoll ==
    /\ lpc = "select"
    /\ channel # << >> \/ ~connUp
    /\ IF connUp
       THEN /\ notifies' = notifies \o channel
            /\ channel' = << >>
            /\ lpc' = "drain"
            /\ UNCHANGED <<sleepLeft, excepted>>
       ELSE /\ ListenerExcept
            /\ UNCHANGED <<notifies, channel>>
    /\ UNCHANGED <<storeVars, beat_schedule, refreshVars, startVars>>
    /\ UNCHANGED <<connUp, subscribed, data, lastHandled, foreign>>
    /\ UNCHANGED execVars

\* json.loads(notify.payload), then data.get(...)
json_loads(payload) ==
    CASE payload.kind = "not json" -> [kind |-> "JSONDecodeError"]
      [] payload.kind = "json, not an object" -> [kind |-> "AttributeError"]
      [] OTHER -> [kind |-> "dict", value |-> payload]

\* One notification, were the payload's error to reach the outer handler.
ListenerHandle_Propagates ==
    /\ lpc = "drain"
    /\ notifies # << >>
    /\ notifies' = Tail(notifies)
    /\ LET parsed == json_loads(Head(notifies)) IN
         IF parsed.kind = "dict"
         THEN /\ data' = parsed.value
              /\ lpc' = "refresh"
              /\ Enter("listener")
              /\ UNCHANGED <<lastHandled, sleepLeft, excepted>>
         ELSE /\ lastHandled' = parsed.kind
              /\ ListenerExcept
              /\ UNCHANGED <<data, pc, old_schedule, ret, read>>
    /\ UNCHANGED <<storeVars, beat_schedule, startVars>>
    /\ UNCHANGED <<connUp, subscribed, channel, foreign>>
    /\ UNCHANGED <<schedules, idx, reload_tmp, readVer, prevVer, apiCalls>>
    /\ UNCHANGED execVars

\* One notification: notify = conn.notifies.pop(0), and the try that follows.
ListenerHandle ==
    /\ lpc = "drain"
    /\ notifies # << >>
    /\ notifies' = Tail(notifies)
    /\ LET parsed == json_loads(Head(notifies)) IN
         IF parsed.kind = "dict"
         THEN /\ data' = parsed.value
              /\ lpc' = "refresh"
              /\ Enter("listener")
              /\ UNCHANGED lastHandled
         ELSE /\ lastHandled' = parsed.kind
              /\ UNCHANGED <<data, lpc, pc, old_schedule, ret, read>>
    /\ UNCHANGED <<storeVars, beat_schedule, startVars>>
    /\ UNCHANGED <<connUp, subscribed, channel, sleepLeft, foreign, excepted>>
    /\ UNCHANGED <<schedules, idx, reload_tmp, readVer, prevVer, apiCalls>>
    /\ UNCHANGED execVars

\* The return of refresh_scheduler(), were a False result to be raised to the
\* outer handler of the listener.
ListenerResume_Reconnects ==
    /\ lpc = "refresh"
    /\ pc["listener"] = "ret"
    /\ Leave("listener")
    /\ data' = NoData
    /\ lastHandled' = "refreshed"
    /\ IF ret["listener"] = "False"
       THEN ListenerExcept
       ELSE lpc' = "drain" /\ UNCHANGED <<sleepLeft, excepted>>
    /\ UNCHANGED <<storeVars, beat_schedule, startVars>>
    /\ UNCHANGED <<connUp, subscribed, channel, notifies, foreign>>
    /\ UNCHANGED <<ret, readVer, apiCalls>>
    /\ UNCHANGED execVars

\* refresh_scheduler() has returned; its result is not looked at.
ListenerResume ==
    /\ lpc = "refresh"
    /\ pc["listener"] = "ret"
    /\ Leave("listener")
    /\ lpc' = "drain"
    /\ data' = NoData
    /\ lastHandled' = "refreshed"
    /\ UNCHANGED <<storeVars, beat_schedule, startVars>>
    /\ UNCHANGED <<connUp, subscribed, channel, notifies, sleepLeft, foreign, excepted>>
    /\ UNCHANGED <<ret, readVer, apiCalls>>
    /\ UNCHANGED execVars

ListenerDrained ==
    /\ lpc = "drain"
    /\ notifies = << >>
    /\ lpc' = "select"
    /\ UNCHANGED <<storeVars, beat_schedule, refreshVars, startVars>>
    /\ UNCHANGED <<connUp, subscribed, channel, notifies, data, sleepLeft, lastHandled,
                   foreign, excepted>>
    /\ UNCHANGED execVars

\* One unit of the sleep passes.
ListenerTick ==
    /\ lpc = "sleep"
    /\ sleepLeft > 0
    /\ sleepLeft' = sleepLeft - 1
    /\ UNCHANGED <<storeVars, beat_schedule, refreshVars, startVars>>
    /\ UNCHANGED <<lpc, connUp, subscribed, channel, notifies, data, lastHandled, foreign, excepted>>
    /\ UNCHANGED execVars

ListenerWake ==
    /\ lpc = "sleep"
    /\ sleepLeft = 0
    /\ lpc' = "close"
    /\ UNCHANGED <<storeVars, beat_schedule, refreshVars, startVars>>
    /\ UNCHANGED <<connUp, subscribed, channel, notifies, data, sleepLeft, lastHandled,
                   foreign, excepted>>
    /\ UNCHANGED execVars

\* finally: conn.close(), and the while True goes round.
ListenerClose ==
    /\ lpc = "close"
    /\ connUp' = FALSE
    /\ subscribed' = FALSE
    /\ channel' = << >>
    /\ lpc' = "connect"
    /\ UNCHANGED <<storeVars, beat_schedule, refreshVars, startVars>>
    /\ UNCHANGED <<notifies, data, sleepLeft, lastHandled, foreign, excepted>>
    /\ UNCHANGED execVars

(***************************************************************************)
(* trigger_backup_for_schedule, called by the route trigger_schedule.      *)
(*    "idle"    no call in progress                                        *)
(*    "update"  update_schedule_run_time(schedule_id, last_run=now)        *)
(*    "delay"   backup_database_task.delay(schedule_id)                    *)
(***************************************************************************)
NoTrigger == [schedule_id |-> 0, status |-> 0, task_id |-> 0]

\* schedules = get_active_schedules(); schedule = next(...); if not schedule:
\* return None, which the route answers with 404.
TriggerRead ==
    /\ tpc = "idle"
    /\ \E id \in Ids, rows \in get_active_schedules(store, dbUp) :
          IF \E k \in 1..Len(rows) : rows[k].id = id
          THEN /\ sent < MaxInvocations
               /\ trig' = [schedule_id |-> id, status |-> 0, task_id |-> 0]
               /\ tpc' = "update"
          ELSE /\ trig' = [schedule_id |-> id, status |-> 404, task_id |-> 0]
               /\ tpc' = "idle"
    /\ UNCHANGED <<storeVars, beat_schedule, refreshVars, listenerVars, startVars>>
    /\ UNCHANGED <<key_source, otherVars, now, queue, sent, last_run, workerVars, artifactVars>>

\* The call, were it to go on to delay() without the UPDATE.
TriggerUpdate_Skips ==
    /\ tpc = "update"
    /\ tpc' = "delay"
    /\ UNCHANGED <<last_run, channel>>
    /\ UNCHANGED <<storeVars, beat_schedule, refreshVars, startVars>>
    /\ UNCHANGED <<lpc, connUp, subscribed, notifies, data, sleepLeft, lastHandled,
                   foreign, excepted>>
    /\ UNCHANGED <<key_source, otherVars, now, trig, queue, sent, workerVars, artifactVars>>

\* update_schedule_run_time: UPDATE backup_schedules SET last_run = ... WHERE
\* id = ...; any error is logged and swallowed.  The UPDATE fires the row
\* trigger of the table.
TriggerUpdate ==
    /\ tpc = "update"
    /\ IF dbUp /\ store[trig.schedule_id].present
       THEN /\ last_run' = [last_run EXCEPT ![trig.schedule_id] = now]
            /\ channel' = pg_notify(Payload("updated", trig.schedule_id,
                                            store[trig.schedule_id].enabled))
       ELSE UNCHANGED <<last_run, channel>>
    /\ tpc' = "delay"
    /\ UNCHANGED <<storeVars, beat_schedule, refreshVars, startVars>>
    /\ UNCHANGED <<lpc, connUp, subscribed, notifies, data, sleepLeft, lastHandled,
                   foreign, excepted>>
    /\ UNCHANGED <<key_source, otherVars, now, trig, queue, sent, workerVars, artifactVars>>

\* result = backup_database_task.delay(schedule_id); return result.id
TriggerDelay ==
    /\ tpc = "delay"
    /\ sent' = sent + 1
    /\ queue' = Append(queue, [task |-> sent + 1, schedule_id |-> trig.schedule_id])
    /\ trig' = [trig EXCEPT !.status = 200, !.task_id = sent + 1]
    /\ tpc' = "idle"
    /\ UNCHANGED <<storeVars, beat_schedule, refreshVars, listenerVars, startVars>>
    /\ UNCHANGED <<key_source, otherVars, now, last_run, workerVars, artifactVars>>

\* A trigger of the mapping fires: the task named by the entry is sent with
\* the entry's args, the schedule id.
BeatFire ==
    /\ sent + (IF tpc = "idle" THEN 0 ELSE 1) < MaxInvocations   \* the bound
    /\ \E key \in DOMAIN beat_schedule :
          queue' = Append(queue, [task |-> sent + 1,
                                  schedule_id |-> beat_schedule[key].args[1]])
    /\ sent' = sent + 1
    /\ UNCHANGED <<storeVars, beat_schedule, refreshVars, listenerVars, startVars>>
    /\ UNCHANGED <<key_source, otherVars, now, tpc, trig, last_run, workerVars, artifactVars>>

(***************************************************************************)
(* backup_database_task, run by the worker for one invocation at a time.   *)
(*    "resolve"  lines 163-195: read the schedule row                      *)
(*    "dump"     lines 203-208: the temporary directory, pg_dump           *)
(*    "upload"   lines 211-216: upload_to_minio                            *)
(*    "fallback" lines 219-221: save_to_local                              *)
(*    "remove"   line 224 and the end of the with block                    *)
(*    "unwind"   the with block is left by an exception                    *)
(*    "record"   line 227: record_backup_metadata                          *)
(*    "success"  lines 229-240                                             *)
(*    "except"   lines 242-245                                             *)
(***************************************************************************)
KeySources == {"key", "password", "none"}

\* get_encryption_key: the Fernet key, or the BackupError it raises.
get_encryption_key(source) ==
    CASE source = "key" -> [kind |-> "key", key |-> "BACKUP_ENCRYPTION_KEY"]
      [] source = "password" -> [kind |-> "key", key |-> "PBKDF2(BACKUP_ENCRYPTION_PASSWORD)"]
      [] OTHER -> [kind |-> "BackupError"]

\* The bytes pg_dump writes for an invocation, and a file holding them.
DumpOf(task) == [dump |-> task, key |-> "plain"]

\* encrypt_file: the file it writes, file_path + '.enc', holding the
\* ciphertext of the input's bytes.
encrypt_file(file_path, bytes, key) ==
    [path |-> [file_path EXCEPT !.ext = file_path.ext \o ".enc"],
     bytes |-> [bytes EXCEPT !.key = key]]

NoTask == [task |-> 0, schedule_id |-> 0]
Tasks == 1..MaxInvocations
NoName == [db |-> "", timestamp |-> 0, ext |-> ""]
NoStorage == [storage_type |-> "", storage_location |-> << >>]
FallbackDir == "/fallback"               \* FALLBACK_STORAGE_DIR
DbName == "default"                      \* database_name or 'default'

\* f"backup_{db_name}_{timestamp}.dump", timestamp to the second
BackupName(db_name, timestamp) == [db |-> db_name, timestamp |-> timestamp, ext |-> ".dump"]

\* os.path.join(temp_dir, backup_name): a directory of the invocation's own
TempPath(task, name) == <<"tmp", task, name>>

\* f"{db_name}/{backup_name}"
ObjectName(db_name, name) == <<db_name, name>>

\* self.update_state(state=..., meta={'message': ...})
update_state(state, message) ==
    /\ task_state' = [task_state EXCEPT ![cur.task] = state]
    /\ task_meta' = [task_meta EXCEPT ![cur.task] = message]

\* The task function ends: it returns a value or raises.
Finish(how) ==
    /\ outcome' = [outcome EXCEPT ![cur.task] = how]
    /\ cur' = NoTask
    /\ epc' = "idle"
    /\ backup_name' = NoName
    /\ storage' = NoStorage
    /\ exc' = "none"

\* raise inside the try block
Raise(error, next) ==
    /\ exc' = error
    /\ epc' = next

ExecFrame ==
    /\ UNCHANGED <<storeVars, beat_schedule, refreshVars, listenerVars, startVars>>
    /\ UNCHANGED <<key_source, otherVars, now, triggerVars>>

\* The worker takes the next invocation off the queue.
ExecStart ==
    /\ cur = NoTask
    /\ queue # << >>
    /\ cur' = Head(queue)
    /\ queue' = Tail(queue)
    /\ epc' = "resolve"
    /\ UNCHANGED <<storeVars, beat_schedule, refreshVars, listenerVars, startVars>>
    /\ UNCHANGED <<key_source, otherVars, now, tpc, trig, sent, last_run, artifactVars>>
    /\ UNCHANGED <<task_state, task_meta, outcome, backup_name, temp_files, storage, exc, dumps, stderr>>

\* The resolve step, were it to test only that the row exists.
ExecResolve_NoEnabledCheck ==
    /\ epc = "resolve"
    /\ IF ~dbUp
       THEN /\ Raise("OperationalError", "except")
            /\ UNCHANGED <<task_state, task_meta, outcome, cur, backup_name>>
       ELSE IF ~store[cur.schedule_id].present
       THEN /\ update_state("SUCCESS", "Schedule disabled, backup skipped")
            /\ Finish("skipped")
       ELSE /\ update_state("PROGRESS", "Starting backup")
            /\ backup_name' = BackupName(DbName, now)
            /\ epc' = "dump"
            /\ UNCHANGED <<outcome, cur, exc>>
    /\ UNCHANGED <<temp_files, storage, dumps, stderr, artifactVars>>
    /\ ExecFrame

\* The resolve step, were the trigger mapping, not the row, to say whether
\* the schedule is active.
ExecResolve_ByMapping ==
    /\ epc = "resolve"
    /\ IF ~dbUp
       THEN /\ Raise("OperationalError", "except")
            /\ UNCHANGED <<task_state, task_meta, outcome, cur, backup_name>>
       ELSE IF cur.schedule_id \notin DOMAIN beat_schedule
       THEN /\ update_state("SUCCESS", "Schedule disabled, backup skipped")
            /\ Finish("skipped")
       ELSE /\ update_state("PROGRESS", "Starting backup")
            /\ backup_name' = BackupName(DbName, now)
            /\ epc' = "dump"
            /\ UNCHANGED <<outcome, cur, exc>>
    /\ UNCHANGED <<temp_files, storage, dumps, stderr, artifactVars>>
    /\ ExecFrame

\* psycopg2.connect, SELECT database_name, enabled ... WHERE id = %s, and
\* what follows up to backup_name.
ExecResolve ==
    /\ epc = "resolve"
    /\ IF ~dbUp
       THEN /\ Raise("OperationalError", "except")
            /\ UNCHANGED <<task_state, task_meta, outcome, cur, backup_name>>
       ELSE IF ~store[cur.schedule_id].present \/ ~store[cur.schedule_id].enabled
       THEN /\ update_state("SUCCESS", "Schedule disabled, backup skipped")
            /\ Finish("skipped")
       ELSE /\ update_state("PROGRESS", "Starting backup")
            /\ backup_name' = BackupName(DbName, now)
            /\ epc' = "dump"
            /\ UNCHANGED <<outcome, cur, exc>>
    /\ UNCHANGED <<temp_files, storage, dumps, stderr, artifactVars>>
    /\ ExecFrame

\* What pg_dump writes to stderr when it exits non-zero (e.stderr), and the
\* text f"Database backup failed: {e.stderr}" made of it, which is str(e) of
\* the BackupError that create_database_backup raises.
NoStderr == ""
Stderrs == {"pg_dump: error: connection to server failed",
            "pg_dump: error: permission denied for table t"}

BackupError(e_stderr) ==
    CASE e_stderr = "pg_dump: error: connection to server failed" ->
            "Database backup failed: pg_dump: error: connection to server failed"
      [] e_stderr = "pg_dump: error: permission denied for table t" ->
            "Database backup failed: pg_dump: error: permission denied for table t"
      [] OTHER -> "Database backup failed: "

\* The dump step, were a non-zero exit of pg_dump to be logged and the
\* pipeline to go on with what pg_dump left.
ExecDump_GoesOn ==
    /\ epc = "dump"
    /\ update_state("PROGRESS", "Creating database dump")
    /\ dumps' = dumps \cup {cur.task}
    /\ \E ok \in BOOLEAN, e_stderr \in Stderrs :
          IF ok
          THEN /\ dbUp
               /\ temp_files' = Put(temp_files, TempPath(cur.task, backup_name),
                                    DumpOf(cur.task))
               /\ stderr' = stderr
          ELSE /\ temp_files' = Put(temp_files, TempPath(cur.task, backup_name),
                                    [dump |-> cur.task, key |-> "partial"])
               /\ stderr' = [stderr EXCEPT ![cur.task] = e_stderr]
    /\ epc' = "upload"
    /\ UNCHANGED <<outcome, cur, backup_name, storage, exc, artifactVars>>
    /\ ExecFrame

\* with tempfile.TemporaryDirectory(): update_state, create_database_backup.
\* pg_dump writes the file, or exits non-zero (CalledProcessError, turned into
\* BackupError) and may leave a partial file behind.
ExecDump ==
    /\ epc = "dump"
    /\ update_state("PROGRESS", "Creating database dump")
    /\ dumps' = dumps \cup {cur.task}
    /\ \E ok \in BOOLEAN, partial \in BOOLEAN, e_stderr \in Stderrs :
          IF ok
          THEN /\ dbUp
               /\ temp_files' = Put(temp_files, TempPath(cur.task, backup_name),
                                    DumpOf(cur.task))
               /\ epc' = "upload"
               /\ UNCHANGED <<exc, stderr>>
          ELSE /\ temp_files' = IF partial
                                THEN Put(temp_files, TempPath(cur.task, backup_name),
                                         [dump |-> cur.task, key |-> "partial"])
                                ELSE temp_files
               /\ stderr' = [stderr EXCEPT ![cur.task] = e_stderr]
               /\ Raise(BackupError(e_stderr), "unwind")
    /\ UNCHANGED <<outcome, cur, backup_name, storage, artifactVars>>
    /\ ExecFrame

\* update_state, upload_to_minio: True, False on S3Error, or any other
\* error of the client (not caught by upload_to_minio).
ExecUpload ==
    /\ epc = "upload"
    /\ update_state("PROGRESS", "Uploading backup to storage")
    /\ LET object_name == ObjectName(DbName, backup_name) IN
       \E result \in {"True", "S3Error", "Exception"} :
          CASE result = "True" ->
                 /\ minio' = Put(minio, object_name,
                                 temp_files[TempPath(cur.task, backup_name)])
                 /\ storage' = [storage_type |-> "minio",
                                storage_location |-> <<"s3://", object_name>>]
                 /\ epc' = "remove"
                 /\ UNCHANGED exc
            [] result = "S3Error" ->
                 /\ epc' = "fallback"
                 /\ UNCHANGED <<minio, storage, exc>>
            [] OTHER ->
                 /\ Raise("Exception", "unwind")
                 /\ UNCHANGED <<minio, storage>>
    /\ UNCHANGED <<outcome, cur, backup_name, temp_files, dumps, stderr, fallback, backups>>
    /\ ExecFrame

\* The fallback write, were save_to_local to swallow its error and return
\* the path.
ExecFallback_Swallows ==
    /\ epc = "fallback"
    /\ LET local_path == <<FallbackDir, backup_name>> IN
       \E ok \in BOOLEAN :
          /\ fallback' = IF ok
                         THEN Put(fallback, local_path,
                                  temp_files[TempPath(cur.task, backup_name)])
                         ELSE fallback
          /\ storage' = [storage_type |-> "local", storage_location |-> local_path]
          /\ epc' = "remove"
          /\ UNCHANGED exc
    /\ UNCHANGED <<task_state, task_meta, outcome, cur, backup_name, temp_files, dumps, stderr,
                   minio, backups>>
    /\ ExecFrame

\* save_to_local: os.makedirs, shutil.copy2; it raises what they raise.
ExecFallback ==
    /\ epc = "fallback"
    /\ LET local_path == <<FallbackDir, backup_name>> IN
       \E ok \in BOOLEAN :
          IF ok
          THEN /\ fallback' = Put(fallback, local_path,
                                  temp_files[TempPath(cur.task, backup_name)])
               /\ storage' = [storage_type |-> "local", storage_location |-> local_path]
               /\ epc' = "remove"
               /\ UNCHANGED exc
          ELSE /\ Raise("OSError", "unwind")
               /\ UNCHANGED <<fallback, storage>>
    /\ UNCHANGED <<task_state, task_meta, outcome, cur, backup_name, temp_files, dumps, stderr,
                   minio, backups>>
    /\ ExecFrame

\* The temporary directory with everything in it goes when the with block ends.
RemoveTree(files, task) ==
    [q \in {q \in DOMAIN files : q[2] # task} |-> files[q]]

\* os.remove(backup_path), and the with block ends.
ExecRemove ==
    /\ epc = "remove"
    /\ temp_files' = RemoveTree(temp_files, cur.task)
    /\ epc' = "record"
    /\ UNCHANGED <<task_state, task_meta, outcome, cur, backup_name, storage, exc, dumps, stderr,
                   artifactVars>>
    /\ ExecFrame

\* The exception path, were the directory made with mkdtemp and removed
\* only by line 224.
ExecUnwind_Leaks ==
    /\ epc = "unwind"
    /\ epc' = "except"
    /\ UNCHANGED <<task_state, task_meta, outcome, cur, backup_name, storage, exc, dumps, stderr,
                   temp_files, artifactVars>>
    /\ ExecFrame

\* An exception leaves the with block.
ExecUnwind ==
    /\ epc = "unwind"
    /\ temp_files' = RemoveTree(temp_files, cur.task)
    /\ epc' = "except"
    /\ UNCHANGED <<task_state, task_meta, outcome, cur, backup_name, storage, exc, dumps, stderr,
                   artifactVars>>
    /\ ExecFrame

\* record_backup_metadata: INSERT INTO backups ...; every error is logged
\* and swallowed.
ExecRecord ==
    /\ epc = "record"
    /\ backups' = IF dbUp
                  THEN Append(backups, [database_name |-> DbName,
                                        backup_name |-> backup_name,
                                        storage_type |-> storage.storage_type,
                                        storage_location |-> storage.storage_location,
                                        task |-> cur.task])
                  ELSE backups
    /\ epc' = "success"
    /\ UNCHANGED <<task_state, task_meta, outcome, cur, backup_name, temp_files, storage,
                   exc, dumps, stderr, minio, fallback>>
    /\ ExecFrame

\* update_state(state='SUCCESS', ...); return {'status': 'success', ...}
ExecSuccess ==
    /\ epc = "success"
    /\ update_state("SUCCESS", "Backup completed successfully")
    /\ Finish("success")
    /\ UNCHANGED <<temp_files, dumps, stderr, artifactVars>>
    /\ ExecFrame

\* The handler, were it to run the pipeline again instead of raising.
ExecExcept_Retries ==
    /\ epc = "except"
    /\ update_state("FAILURE", exc)
    /\ epc' = "resolve"
    /\ exc' = "none"
    /\ UNCHANGED <<outcome, cur, backup_name, storage>>
    /\ UNCHANGED <<temp_files, dumps, stderr, artifactVars>>
    /\ ExecFrame

\* except Exception as e: update_state(state='FAILURE', meta={'message': str(e)}); raise
ExecExcept ==
    /\ epc = "except"
    /\ update_state("FAILURE", exc)
    /\ Finish("raised")
    /\ UNCHANGED <<temp_files, dumps, stderr, artifactVars>>
    /\ ExecFrame

Exec ==
    \/ ExecStart
    \/ ExecResolve
    \/ ExecDump
    \/ ExecUpload
    \/ ExecFallback
    \/ ExecRemove
    \/ ExecUnwind
    \/ ExecRecord
    \/ ExecSuccess
    \/ ExecExcept

Trigger == TriggerRead \/ TriggerUpdate \/ TriggerDelay

\* A second of wall-clock time passes.
ClockTick ==
    /\ now < MaxTime
    /\ now' = now + 1
    /\ UNCHANGED <<storeVars, beat_schedule, refreshVars, listenerVars, startVars>>
    /\ UNCHANGED <<key_source, otherVars, triggerVars, workerVars, artifactVars>>

(***************************************************************************)
(* delete_backup (src/app/routes/backups.py), one call at a time.  Paths   *)
(* and object names are sequences of segments.                             *)
(*    "idle"   no call in progress; the call starts with the primary store *)
(*    "local"  lines 139-157: the fallback directory                       *)
(*    "purge"  lines 159-194: the metadata rows, and the answer; the       *)
(*             locals go with the call                                     *)
(***************************************************************************)
BucketName == "backups"                  \* MINIO_BUCKET_NAME

\* os.path.join(directory, path)
join(directory, path) == <<directory>> \o path

\* The identifiers a client passes: a backup name or an object name.
Filenames ==
    {<<BackupName(DbName, t)>> : t \in 1..MaxTime}
    \cup {ObjectName(DbName, BackupName(DbName, t)) : t \in 1..MaxTime}

Remove(d, k) == [x \in (DOMAIN d) \ {k} |-> d[x]]

NotParsed == [kind |-> "none"]
NoResponse == [status |-> 0, backup_name |-> <<"unknown">>]

\* The first step, were the fallback directory to be tried whatever the
\* primary store answered.
DeleteMinio_AlwaysLocal ==
    /\ dpc = "idle"
    /\ \E f \in Filenames, ok \in BOOLEAN :
          /\ filename' = f
          /\ purge' = "none"
          /\ IF ok /\ f \in DOMAIN minio
             THEN /\ minio' = Remove(minio, f)
                  /\ deleted_from_storage' = TRUE
                  /\ deleted_in' = "minio"
                  /\ response' = [status |-> 0, backup_name |-> <<f[Len(f)]>>]
                  /\ dpc' = "local"
             ELSE /\ minio' = minio
                  /\ deleted_from_storage' = FALSE
                  /\ deleted_in' = "none"
                  /\ response' = NoResponse
                  /\ dpc' = "local"
    /\ UNCHANGED <<storeVars, beat_schedule, refreshVars, listenerVars, startVars>>
    /\ UNCHANGED <<key_source, now, triggerVars, workerVars, fallback, backups>>
    /\ UNCHANGED <<listing, list_request, parseVars, bootVars>>

\* Lines 102-136: stat_object and remove_object; whatever they or the client
\* raise is logged and leaves deleted_from_storage False.
DeleteMinio ==
    /\ dpc = "idle"
    /\ \E f \in Filenames, ok \in BOOLEAN :
          /\ filename' = f
          /\ purge' = "none"
          /\ IF ok /\ f \in DOMAIN minio
             THEN /\ minio' = Remove(minio, f)
                  /\ deleted_from_storage' = TRUE
                  /\ deleted_in' = "minio"
                  /\ response' = [status |-> 0, backup_name |-> <<f[Len(f)]>>]
                  /\ dpc' = "purge"
             ELSE /\ minio' = minio
                  /\ deleted_from_storage' = FALSE
                  /\ deleted_in' = "none"
                  /\ response' = NoResponse
                  /\ dpc' = "local"
    /\ UNCHANGED <<storeVars, beat_schedule, refreshVars, listenerVars, startVars>>
    /\ UNCHANGED <<key_source, now, triggerVars, workerVars, fallback, backups>>
    /\ UNCHANGED <<listing, list_request, parseVars, bootVars>>

\* Lines 139-157: os.path.exists and os.remove; an error of os.remove is
\* logged.
DeleteLocal ==
    /\ dpc = "local"
    /\ LET file_path == join(FallbackDir, filename) IN
       \E ok \in BOOLEAN :
          IF ok /\ file_path \in DOMAIN fallback
          THEN /\ fallback' = Remove(fallback, file_path)
               /\ deleted_from_storage' = TRUE
               /\ deleted_in' = "local"
               /\ response' = [status |-> 0, backup_name |-> filename]
          ELSE UNCHANGED <<fallback, deleted_from_storage, deleted_in, response>>
    /\ dpc' = "purge"
    /\ UNCHANGED <<storeVars, beat_schedule, refreshVars, listenerVars, startVars>>
    /\ UNCHANGED <<key_source, now, triggerVars, workerVars, minio, backups>>
    /\ UNCHANGED <<filename, purge, listing, list_request, parseVars, bootVars>>

\* The answer, were a failed clean-up of the rows to become an error.
DeletePurge_Strict ==
    /\ dpc = "purge"
    /\ LET s3_location == <<"s3://", <<BucketName>> \o filename>>
           local_location == join(FallbackDir, filename)
           Kept(row) == row.storage_location \notin {s3_location, local_location}
       IN IF dbUp
          THEN /\ backups' = SelectSeq(backups, Kept)
               /\ purge' = "done"
          ELSE /\ backups' = backups
               /\ purge' = "failed"
    /\ response' = IF deleted_from_storage /\ dbUp
                   THEN [response EXCEPT !.status = 200]
                   ELSE IF deleted_from_storage
                   THEN [response EXCEPT !.status = 500]
                   ELSE [response EXCEPT !.status = 404]
    /\ dpc' = "idle"
    /\ filename' = << >>
    /\ deleted_from_storage' = FALSE
    /\ UNCHANGED <<storeVars, beat_schedule, refreshVars, listenerVars, startVars>>
    /\ UNCHANGED <<key_source, now, triggerVars, workerVars, minio, fallback>>
    /\ UNCHANGED <<deleted_in, listing, list_request, parseVars, bootVars>>

\* The clean-up, were it to look for the primary store's location only.
DeletePurge_PrimaryOnly ==
    /\ dpc = "purge"
    /\ LET s3_location == <<"s3://", <<BucketName>> \o filename>>
           Kept(row) == row.storage_location # s3_location
       IN IF dbUp
          THEN /\ backups' = SelectSeq(backups, Kept)
               /\ purge' = "done"
          ELSE /\ backups' = backups
               /\ purge' = "failed"
    /\ response' = IF deleted_from_storage
                   THEN [response EXCEPT !.status = 200]
                   ELSE [response EXCEPT !.status = 404]
    /\ dpc' = "idle"
    /\ filename' = << >>
    /\ deleted_from_storage' = FALSE
    /\ UNCHANGED <<storeVars, beat_schedule, refreshVars, listenerVars, startVars>>
    /\ UNCHANGED <<key_source, now, triggerVars, workerVars, minio, fallback>>
    /\ UNCHANGED <<deleted_in, listing, list_request, parseVars, bootVars>>

\* Lines 159-194: DELETE FROM backups WHERE storage_location is one of the
\* two locations; an error is logged.  Then 404 if nothing was deleted from
\* a store, else the message with backup_name.
DeletePurge ==
    /\ dpc = "purge"
    /\ LET s3_location == <<"s3://", <<BucketName>> \o filename>>
           local_location == join(FallbackDir, filename)
           Kept(row) == row.storage_location \notin {s3_location, local_location}
       IN IF dbUp
          THEN /\ backups' = SelectSeq(backups, Kept)
               /\ purge' = "done"
          ELSE /\ backups' = backups
               /\ purge' = "failed"
    /\ response' = IF deleted_from_storage
                   THEN [response EXCEPT !.status = 200]
                   ELSE [response EXCEPT !.status = 404]
    /\ dpc' = "idle"
    /\ filename' = << >>
    /\ deleted_from_storage' = FALSE
    /\ UNCHANGED <<storeVars, beat_schedule, refreshVars, listenerVars, startVars>>
    /\ UNCHANGED <<key_source, now, triggerVars, workerVars, minio, fallback>>
    /\ UNCHANGED <<deleted_in, listing, list_request, parseVars, bootVars>>

Delete == DeleteMinio \/ DeleteLocal \/ DeletePurge

(***************************************************************************)
(* list_backups (src/app/tasks.py).  The call is one step: it reads the    *)
(* primary store, then the fallback directory, and sorts.                  *)
(***************************************************************************)
NoDatabase == ""                         \* database_name None
DatabaseNames == {NoDatabase, DbName, "other"}
NoTime == 0                              \* created_at None
NoTimeKey == MaxTime + 1                 \* '9999-99-99', above every isoformat() string
NoRequest == [database_name |-> NoDatabase, ok |-> FALSE, objects |-> {}]

\* backup_name.split('_')[1]
Part1(name) == CASE name.db = "my_db" -> "my" [] OTHER -> name.db

\* Lines 309-325: a record for each listed object db_name/backup_name.dump.
MinioRecords(database_name, objects) ==
    {[database_name |-> o.object_name[1],
      backup_name |-> o.object_name[2],
      storage_type |-> "minio",
      storage_location |-> <<"s3://", o.object_name>>,
      created_at |-> o.last_modified] :
        o \in {o \in objects : /\ Len(o.object_name) = 2
                               /\ o.object_name[2].ext = ".dump"
                               /\ \/ database_name = NoDatabase
                                  \/ o.object_name[1] = database_name}}

\* Lines 335-354: a record for each file backup_<db>_<timestamp>.dump.enc of
\* the fallback directory.
LocalRecords(database_name, files) ==
    {[database_name |-> Part1(file),
      backup_name |-> [file EXCEPT !.ext = ".dump"],
      storage_type |-> "local",
      storage_location |-> join(FallbackDir, <<file>>),
      created_at |-> NoTime] :
        file \in {file \in files : /\ file.ext = ".dump.enc"
                                   /\ \/ database_name = NoDatabase
                                      \/ Part1(file) = database_name}}

\* The key of the sort, (x['created_at'] or '9999-99-99', x['backup_name']).
\* The names of one database compare as their timestamps do.
SortKey(x) ==
    <<IF x.created_at = NoTime THEN NoTimeKey ELSE x.created_at, x.backup_name.timestamp>>

KeyGeq(a, b) == a[1] > b[1] \/ (a[1] = b[1] /\ a[2] >= b[2])

\* backups.sort(key=..., reverse=True): the orders it can leave the records in
sort_reverse(records) ==
    {s \in Orderings(records) :
        \A i, j \in 1..Cardinality(records) : i < j => KeyGeq(SortKey(s[i]), SortKey(s[j]))}

\* list_backups(database_name).  The primary store lists its objects under
\* the prefix, each with a last_modified or none, or the client raises.
ListBackups ==
    /\ \E database_name \in DatabaseNames, ok \in BOOLEAN,
          last_modified \in [DOMAIN minio -> {NoTime} \cup (1..MaxTime)] :
          LET objects == IF ok
                         THEN {[object_name |-> k, last_modified |-> last_modified[k]] :
                                  k \in {k \in DOMAIN minio :
                                            database_name \in {NoDatabase, k[1]}}}
                         ELSE {}
              found == MinioRecords(database_name, objects)
              records == IF found = {}
                         THEN LocalRecords(database_name,
                                           {path[2] : path \in DOMAIN fallback})
                         ELSE found
          IN /\ list_request' = [database_name |-> database_name, ok |-> ok,
                                 objects |-> objects]
             /\ \E s \in sort_reverse(records) : listing' = s
    /\ UNCHANGED <<storeVars, beat_schedule, refreshVars, listenerVars, startVars>>
    /\ UNCHANGED <<key_source, now, triggerVars, workerVars, artifactVars>>
    /\ UNCHANGED <<dpc, filename, deleted_from_storage, response, purge, deleted_in>>
    /\ UNCHANGED <<parseVars, bootVars>>

(***************************************************************************)
(* parse_cron_expression called on its own.  The expression is given by    *)
(* its fields, joined by single blanks, so that split() gives them back.   *)
(***************************************************************************)
Tokens == IntTokens \cup {"*", "x"}

ParseInputs ==
    [1..5 -> Tokens] \cup {<< >>, <<"0", "3">>, <<"*", "*", "*", "*">>,
                           <<"0", "3", "1", "1", "1", "1">>}

ParseCall ==
    /\ parse_result = NotParsed
    /\ \E parts \in ParseInputs :
          /\ parse_arg' = parts
          /\ parse_result' = parse_fields(parts, parts)
    /\ UNCHANGED <<storeVars, beat_schedule, refreshVars, listenerVars, startVars>>
    /\ UNCHANGED <<key_source, now, triggerVars, workerVars, artifactVars>>
    /\ UNCHANGED <<routeVars, bootVars>>

(***************************************************************************)
(* init_database (src/app/database/connection.py).                         *)
(*    "off"       not called yet                                           *)
(*    "attempt"   the try block of one iteration, lines 133-207            *)
(*    "sleep"     time.sleep(retry_delay), line 212                        *)
(*    "returned"  return at line 207                                       *)
(*    "degraded"  return at line 216, after the warning                    *)
(***************************************************************************)
InitDatabaseCall ==
    /\ ipc = "off"
    /\ ipc' = "attempt"
    /\ attempt' = 0
    /\ UNCHANGED <<slept, tried>>
    /\ UNCHANGED <<storeVars, beat_schedule, refreshVars, listenerVars, startVars>>
    /\ UNCHANGED <<key_source, now, triggerVars, workerVars, artifactVars>>
    /\ UNCHANGED <<routeVars, parseVars>>

\* The last failed attempt, were its exception to leave the function.
InitDatabaseAttempt_Raises ==
    /\ ipc = "attempt"
    /\ \E ok \in BOOLEAN :
          IF ok /\ dbUp
          THEN /\ tried' = Append(tried, "ok")
               /\ ipc' = "returned"
          ELSE /\ tried' = Append(tried, "failed")
               /\ ipc' = IF attempt < max_retries - 1 THEN "sleep" ELSE "raised"
    /\ UNCHANGED <<attempt, slept>>
    /\ UNCHANGED <<storeVars, beat_schedule, refreshVars, listenerVars, startVars>>
    /\ UNCHANGED <<key_source, now, triggerVars, workerVars, artifactVars>>
    /\ UNCHANGED <<routeVars, parseVars>>

\* One iteration: the connection, the tables, the triggers and the commit
\* succeed and the function returns, or any of them raises, with the store
\* reachable or not, and except Exception decides between retrying and
\* returning.
InitDatabaseAttempt ==
    /\ ipc = "attempt"
    /\ \E ok \in BOOLEAN :
          IF ok /\ dbUp
          THEN /\ tried' = Append(tried, "ok")
               /\ ipc' = "returned"
          ELSE /\ tried' = Append(tried, "failed")
               /\ ipc' = IF attempt < max_retries - 1 THEN "sleep" ELSE "degraded"
    /\ UNCHANGED <<attempt, slept>>
    /\ UNCHANGED <<storeVars, beat_schedule, refreshVars, listenerVars, startVars>>
    /\ UNCHANGED <<key_source, now, triggerVars, workerVars, artifactVars>>
    /\ UNCHANGED <<routeVars, parseVars>>

\* time.sleep(retry_delay), and the for loop takes the next attempt.
InitDatabaseSleep ==
    /\ ipc = "sleep"
    /\ slept' = Append(slept, retry_delay)
    /\ attempt' = attempt + 1
    /\ ipc' = "attempt"
    /\ UNCHANGED tried
    /\ UNCHANGED <<storeVars, beat_schedule, refreshVars, listenerVars, startVars>>
    /\ UNCHANGED <<key_source, now, triggerVars, workerVars, artifactVars>>
    /\ UNCHANGED <<routeVars, parseVars>>

InitDatabase == InitDatabaseCall \/ InitDatabaseAttempt \/ InitDatabaseSleep

(***************************************************************************)
(* Specifications.                                                         *)
(***************************************************************************)
\* What construction leaves, the artifact stores apart.
InitBase ==
    /\ store = [i \in Ids |-> NoRow]
    /\ nextId = 1
    /\ dbUp = TRUE
    /\ beat_schedule = EmptyDict          \* celery.conf.update(beat_schedule={})
    /\ old_schedule = [t \in Refreshers |-> EmptyDict]
    /\ schedules = [t \in Threads |-> << >>]
    /\ idx = [t \in Threads |-> 1]
    /\ reload_tmp = [t \in Refreshers |-> EmptyDict]
    /\ ret = [t \in Refreshers |-> "none"]
    /\ connUp = FALSE
    /\ subscribed = FALSE
    /\ channel = << >>
    /\ notifies = << >>
    /\ data = NoData
    /\ sleepLeft = 0
    /\ storeVer = 0
    /\ readVer = 0
    /\ read = [t \in Threads |-> NoRead]
    /\ prevVer = 0 - 1
    /\ lastHandled = "none"
    /\ excepted = FALSE
    /\ apiCalls = 0
    /\ foreign = 0
    /\ outages = 0
    /\ now = 1
    /\ last_run = [i \in Ids |-> 0]
    /\ tpc = "idle"
    /\ trig = NoTrigger
    /\ queue = << >>
    /\ sent = 0
    /\ task_state = [t \in Tasks |-> "PENDING"]
    /\ task_meta = [t \in Tasks |-> ""]
    /\ outcome = [t \in Tasks |-> "none"]
    /\ cur = NoTask
    /\ epc = "idle"
    /\ backup_name = NoName
    /\ temp_files = << >>
    /\ storage = NoStorage
    /\ exc = "none"
    /\ dumps = {}
    /\ stderr = [t \in Tasks |-> NoStderr]
    /\ dpc = "idle"
    /\ filename = << >>
    /\ deleted_from_storage = FALSE
    /\ response = NoResponse
    /\ purge = "none"
    /\ deleted_in = "none"
    /\ listing = << >>
    /\ list_request = NoRequest
    /\ parse_arg = << >>
    /\ parse_result = NotParsed
    /\ ipc = "off"
    /\ attempt = 0
    /\ slept = << >>
    /\ tried = << >>

\* A first start: the bucket, the fallback directory and the table backups
\* are empty.
InitCommon ==
    /\ InitBase
    /\ minio = << >>
    /\ fallback = << >>
    /\ backups = << >>

NotStarted ==
    /\ lpc = "off"
    /\ listener_thread = 0                \* _listener_thread = None
    /\ created = 0
    /\ alive = {}
    /\ startCalls = [t \in Threads |-> 0]

\* The process starts: setup_periodic_tasks is about to run.
Init ==
    /\ InitCommon
    /\ key_source = "none"
    /\ NotStarted
    /\ pc = [t \in Threads |-> IF t = "main" THEN "setup_clear" ELSE "idle"]

Mutate(T) == InsertRow(T) \/ UpdateRow(T) \/ DeleteRow

Refresh(t) ==
    \/ RefreshClear(t)
    \/ RefreshFetch(t)
    \/ RefreshLoop(t)
    \/ RefreshLoopEnd(t)
    \/ RefreshDiff(t)
    \/ RefreshReloadRead(t)
    \/ RefreshReloadWrite(t)

Setup == SetupClear \/ SetupFetch \/ SetupLoop \/ SetupLoopEnd

Start(c) == StartCheck(c) \/ StartCreate(c) \/ StartRun(c)

Listener ==
    \/ ListenerConnect
    \/ ListenerKeepalive
    \/ ListenerPoll
    \/ ListenerHandle
    \/ ListenerResume
    \/ ListenerDrained
    \/ ListenerTick
    \/ ListenerWake
    \/ ListenerClose

\* The service from its start, without the API path: setup_periodic_tasks,
\* then the listener, while rows change, notifications arrive and the store
\* or the connection fails.
Next ==
    \/ Mutate(CoreTemplates)
    \/ ForeignNotify
    \/ StoreDown
    \/ StoreUp
    \/ ConnDrop
    \/ Setup
    \/ Start("main")
    \/ Listener
    \/ Refresh("listener")

Spec == Init /\ [][Next]_vars

\* The listener is a thread of its own: it keeps being scheduled, its sleep
\* and its select calls end.
FairSpec == Spec /\ WF_vars(Listener \/ Refresh("listener"))

\* The service once setup_periodic_tasks has run on an empty store and has
\* started the listener, with the API path calling refresh_scheduler at any
\* time, and a store and connections that stay up.
InitStarted ==
    /\ InitCommon
    /\ key_source = "none"
    /\ lpc = "connect"
    /\ listener_thread = 1
    /\ created = 1
    /\ alive = {1}
    /\ startCalls = [t \in Threads |-> 0]
    /\ pc = [t \in Threads |-> IF t = "main" THEN "done" ELSE "idle"]

NextRace ==
    \/ Mutate(CoreTemplates)
    \/ ListenerConnect
    \/ ListenerKeepalive
    \/ ListenerPoll
    \/ ListenerHandle
    \/ ListenerResume
    \/ ListenerDrained
    \/ ApiRefresh
    \/ ApiReturn
    \/ \E t \in Refreshers : Refresh(t)

SpecRace == InitStarted /\ [][NextRace]_vars

\* A process in which only the API path calls refresh_scheduler, one call
\* after the other.
InitIdle ==
    /\ InitCommon
    /\ key_source = "none"
    /\ NotStarted
    /\ pc = [t \in Threads |-> "idle"]

NextSeq ==
    \/ Mutate(RowTemplates)
    \/ StoreDown
    \/ StoreUp
    \/ ApiRefresh
    \/ ApiReturn
    \/ Refresh("api")

SpecSeq == InitIdle /\ [][NextSeq]_vars

\* The executor: manual triggers put invocations on the queue and one worker
\* runs them, while rows change, time passes and the store fails.
InitExec ==
    /\ InitCommon
    /\ NotStarted
    /\ pc = [t \in Threads |-> "idle"]
    /\ key_source \in KeySources

NextExec ==
    \/ Mutate(CoreTemplates)
    \/ StoreDown
    \/ StoreUp
    \/ ClockTick
    \/ Trigger
    \/ Exec

SpecExec == InitExec /\ [][NextExec]_vars

\* The artifacts: invocations of one enabled schedule are run, within one
\* second of the clock, while the store fails and clients delete what the
\* invocations leave.
OneSchedule ==
    {r \in CoreTemplates : r.schedule_type = "interval" /\ r.enabled}

NextDelete ==
    \/ InsertRow(OneSchedule)
    \/ StoreDown
    \/ StoreUp
    \/ Trigger
    \/ Exec
    \/ Delete

SpecDelete == InitIdle /\ [][NextDelete]_vars

\* delete_backup on stores that hold artifacts of earlier runs and copies
\* of them: the bucket and the fallback directory are storage that the
\* service does not own, so an identifier may name an object, a file, or both.
StoredBytes == DumpOf(1)

FallbackRow(name) ==
    [database_name |-> DbName, backup_name |-> name, storage_type |-> "local",
     storage_location |-> <<FallbackDir, name>>, task |-> 0]

InitStores ==
    /\ InitBase
    /\ key_source = "none"
    /\ NotStarted
    /\ pc = [t \in Threads |-> "idle"]
    /\ \E S \in SUBSET Filenames : minio = [f \in S |-> StoredBytes]
    /\ \E S \in SUBSET Filenames :
          fallback = [file_path \in {join(FallbackDir, f) : f \in S} |-> StoredBytes]
    /\ backups \in {<< >>} \cup {<<FallbackRow(BackupName(DbName, t))>> : t \in 1..MaxTime}

NextStores ==
    \/ StoreDown
    \/ StoreUp
    \/ Delete

SpecStores == InitStores /\ [][NextStores]_vars

\* The notify/refresh cycle: the listener runs, rows are inserted and
\* trigger_backup_for_schedule writes last_run, while the store goes down
\* and up.  The listener is a thread of its own and keeps being scheduled.
NextCycle ==
    \/ InsertRow(OneSchedule)
    \/ StoreDown
    \/ StoreUp
    \/ Trigger
    \/ Listener
    \/ Refresh("listener")

FairCycle ==
    InitStarted /\ [][NextCycle]_vars /\ WF_vars(Listener \/ Refresh("listener"))

\* Triggers that outlive their schedule: interval schedules are inserted,
\* disabled and deleted, the API path refreshes the mapping now and then,
\* the triggers of the mapping fire and clients trigger by hand, and the
\* worker runs what was sent.
IntervalSchedules == {r \in CoreTemplates : r.schedule_type = "interval"}

NextStale ==
    \/ Mutate(IntervalSchedules)
    \/ ApiRefresh
    \/ ApiReturn
    \/ Refresh("api")
    \/ BeatFire
    \/ Trigger
    \/ Exec

SpecStale == InitIdle /\ [][NextStale]_vars

\* The same invocations as time passes, and clients list what they leave.
NextList ==
    \/ InsertRow(OneSchedule)
    \/ ClockTick
    \/ Trigger
    \/ Exec
    \/ ListBackups

SpecList == InitIdle /\ [][NextList]_vars

\* Sequential refreshes over interval rows of every interval length.
NextInterval ==
    \/ Mutate(IntervalTemplates)
    \/ StoreDown
    \/ StoreUp
    \/ ApiRefresh
    \/ ApiReturn
    \/ Refresh("api")

SpecInterval == InitIdle /\ [][NextInterval]_vars

\* init_database at startup, while the store comes and goes.
NextBoot ==
    \/ InitDatabase
    \/ StoreDown
    \/ StoreUp

SpecBoot == InitIdle /\ [][NextBoot]_vars

\* parse_cron_expression on every expression of the bounded set.
NextParse == ParseCall

SpecParse == InitIdle /\ [][NextParse]_vars

\* The service from its start on a store that stays up, with another thread
\* of the process that may call start_schedule_listener at any time.
NextStartup ==
    \/ Mutate(CoreTemplates)
    \/ Setup
    \/ Start("main")
    \/ StartCall("other")
    \/ Start("other")
    \/ ListenerConnect
    \/ ListenerKeepalive
    \/ ListenerPoll
    \/ ListenerHandle
    \/ ListenerResume
    \/ ListenerDrained
    \/ Refresh("listener")

SpecStartup == Init /\ [][NextStartup]_vars

\* Threads that call start_schedule_listener, in any interleaving.
Callers == {"main", "other"}

NextStart == \E c \in Callers : StartCall(c) \/ Start(c)

SpecStart == InitIdle /\ [][NextStart]_vars

(***************************************************************************)
(* Properties.                                                             *)
(***************************************************************************)
InRefresh(t) == pc[t] \in {"clear", "fetch", "loop", "diff", "reload_read", "reload_write"}

RowIds(rows) == {rows[k].id : k \in 1..Len(rows)}

\* C1: while a refresh_scheduler call runs and the store does not change,
\* the mapping a reader sees is the complete mapping from before the call
\* or the complete mapping built from the rows the call read, never an
\* empty or partly filled one in between.
C1_AtomicReplacement ==
    \A t \in Refreshers :
        InRefresh(t) /\ read[t].start = storeVer
            => \/ beat_schedule = old_schedule[t]
               \/ /\ pc[t] \notin {"clear", "fetch"}
                  /\ beat_schedule = Rebuilt(schedules[t])

\* C3: when a refresh_scheduler call returns, the ids that have a trigger
\* are exactly the ids of the rows that were enabled in the store when the
\* call read it.
C3_Coverage ==
    \A t \in Refreshers :
        pc[t] = "ret" => DOMAIN beat_schedule = read[t].ids

\* C4: a refresh_scheduler call that returns True after the previous call
\* returned True, with no store mutation since the previous call read the
\* store, leaves the mapping as it found it.
C4_Idempotent ==
    pc["api"] = "ret" /\ ret["api"] = "True" /\ prevVer = storeVer
        => beat_schedule = old_schedule["api"]

\* The cron expressions the specification calls absent or malformed: no
\* expression, not five fields, or a field that is neither an integer nor "*".
AbsentOrMalformed(cron_expr) ==
    \/ cron_expr = NoExpr
    \/ Len(split(cron_expr)) # 5
    \/ \E k \in 1..Len(split(cron_expr)) : split(cron_expr)[k] \notin IntTokens \cup {"*"}

SkippableRows(rows) ==
    {k \in 1..Len(rows) : rows[k].schedule_type = "crontab"
                           /\ AbsentOrMalformed(rows[k].cron_expression)}

\* C5: a refresh_scheduler call that read enabled rows some of which are
\* crontab rows with an absent or malformed expression returns True, and the
\* ids that have a trigger are those of all the other rows it read.
C5_BadCronIsolated ==
    pc["api"] = "ret" /\ read["api"].ok /\ SkippableRows(schedules["api"]) # {}
        => /\ ret["api"] = "True"
           /\ DOMAIN beat_schedule =
                  RowIds(schedules["api"])
                      \ {schedules["api"][k].id : k \in SkippableRows(schedules["api"])}

\* C2: when a listener-triggered and an API-triggered refresh_scheduler call
\* that overlapped have both read the same store and both report True, with
\* no store mutation since, the mapping is the complete mapping built from
\* the rows they read: no trigger is missing.
C2_ConcurrentRefresh ==
    (\A t \in Refreshers :
        pc[t] = "ret" /\ ret[t] = "True" /\ read[t].ok /\ read[t].ver = storeVer)
        => beat_schedule = Rebuilt(schedules["api"])

\* The notification being handled says that schedule s was deleted or disabled.
Removes(d, s) ==
    /\ d.kind = "object"
    /\ d.schedule_id = s
    /\ d.action = "deleted" \/ (d.action = "updated" /\ ~d.enabled)

\* C6: when the listener has processed the notification of a delete or a
\* disable of schedule s, which had a trigger, and s is still not enabled in
\* the store, the mapping has no trigger for s.
C6_ChangeReactivity ==
    \A s \in Ids :
        /\ lpc = "refresh"
        /\ pc["listener"] = "ret"
        /\ Removes(data, s)
        /\ s \in DOMAIN old_schedule["listener"]
        /\ s \notin read["listener"].ids
        /\ s \notin EnabledIds(store)
        => s \notin DOMAIN beat_schedule

\* C7: once the listener has nothing left to process (it is subscribed and
\* waiting, with no notification pending), the store has been read at its
\* latest committed mutation: no mutation is left without a refresh.
C7_AtLeastOnce ==
    lpc = "select" /\ connUp /\ subscribed /\ channel = << >> /\ notifies = << >>
        => readVer = storeVer

ListenerPositions == {"connect", "select", "drain", "refresh", "sleep", "close"}

C8_Step ==
    /\ lpc # "off" => lpc' \in ListenerPositions
    /\ lpc = "connect" /\ ~dbUp /\ lpc' # lpc => lpc' = "sleep"
    /\ lpc = "select" /\ ~connUp /\ lpc' # lpc => lpc' = "sleep"
    /\ lpc' = "sleep" /\ lpc # "sleep" => sleepLeft' = ReconnectDelay
    /\ lpc = "sleep" /\ lpc' = "sleep" => sleepLeft' \in {sleepLeft, sleepLeft - 1}
    /\ lpc = "sleep" /\ lpc' # "sleep" => sleepLeft = 0 /\ lpc' = "close"
    /\ lpc = "close" /\ lpc' # "close" => lpc' = "connect" /\ ~connUp' /\ ~subscribed'
    /\ lpc' = "connect" /\ lpc # "connect" => lpc \in {"off", "close"}
    /\ lpc = "connect" /\ dbUp /\ lpc' # lpc => lpc' = "select" /\ subscribed' /\ connUp'

C9_Step ==
    lpc = "drain" /\ notifies # << >> /\ notifies' # notifies
        => /\ notifies' = Tail(notifies)
           /\ subscribed' = subscribed
           /\ connUp' = connUp
           /\ IF Head(notifies).kind = "object"
              THEN lpc' = "refresh" /\ pc'["listener"] = "clear"
              ELSE /\ lpc' = "drain"
                   /\ pc'["listener"] = pc["listener"]
                   /\ beat_schedule' = beat_schedule

\* C9: handling a malformed payload only takes it off the queue: the
\* listener stays in its drain loop with its connection and subscription,
\* no refresh runs and the notifications behind it stay queued; handling a
\* well-formed one starts a refresh.
C9_MalformedIgnored == [][C9_Step]_vars

\* A malformed payload was handled and the next notification's refresh runs.
C9_Witness ==
    /\ lastHandled \in {"JSONDecodeError", "AttributeError"}
    /\ lpc = "refresh"
    /\ subscribed /\ connUp

\* C10: at most one listener thread is alive, whatever the sequence and the
\* interleaving of start_schedule_listener calls.
C10_SingleListener == Cardinality(alive) <= 1

\* What an invocation has left outside itself: a pg_dump run, an object in
\* the primary store, a file in the fallback store, a row of backups.
Stored(d, task) == \E k \in DOMAIN d : d[k].dump = task

Recorded(task) == \E k \in 1..Len(backups) : backups[k].task = task

HasEffect(task) ==
    \/ task \in dumps
    \/ Stored(minio, task)
    \/ Stored(fallback, task)
    \/ Recorded(task)

C11_Step ==
    /\ epc = "resolve"
    /\ epc' # "resolve"
    /\ dbUp
    /\ ~store[cur.schedule_id].present \/ ~store[cur.schedule_id].enabled
    => /\ outcome'[cur.task] = "skipped"
       /\ task_state'[cur.task] = "SUCCESS"
       /\ cur' = NoTask
       /\ UNCHANGED <<dumps, temp_files, minio, fallback, backups>>

\* C11: an invocation that finds its schedule row missing or disabled when
\* it resolves the target ends at once with the result 'skipped' in state
\* SUCCESS, and a skipped invocation has run no dump and has put nothing in
\* the primary store, the fallback store or the backups table.
C11_SkipHasNoEffect ==
    /\ [][C11_Step]_vars
    /\ [](\A t \in Tasks : outcome[t] = "skipped" => ~HasEffect(t))

\* An invocation was skipped.
C11_Witness ==
    \E t \in Tasks : outcome[t] = "skipped" /\ task_state[t] = "SUCCESS"

C12_Step ==
    /\ epc = "upload" /\ epc' # "upload" /\ ~Stored(minio', cur.task)
           => epc' = "fallback"
    /\ epc = "fallback" /\ epc' = "remove"
           => /\ fallback'[<<FallbackDir, backup_name>>]
                     = temp_files[TempPath(cur.task, backup_name)]
              /\ storage' = [storage_type |-> "local",
                             storage_location |-> <<FallbackDir, backup_name>>]
    /\ epc = "record" /\ epc' # "record" /\ storage.storage_type = "local"
           => /\ Len(backups') = Len(backups) + 1
              /\ backups'[Len(backups')].task = cur.task
              /\ backups'[Len(backups')].storage_type = "local"
              /\ backups'[Len(backups')].storage_location = storage.storage_location

\* C12: whenever the upload to the primary store ends without the artifact
\* stored there, the executor goes on to the fallback write; the fallback
\* write stores the bytes of the dump under the fallback path, and the
\* record step then adds one row of kind local with that path.
C12_FallbackOnAnyFailure == [][C12_Step]_vars

C13_Step ==
    epc = "fallback" /\ epc' # "fallback" /\ ~Stored(fallback', cur.task)
        => /\ epc' = "unwind"
           /\ exc' # "none"
           /\ backups' = backups

\* C13: when the fallback write fails after the primary upload failed, the
\* error propagates; an invocation that is propagating an error or has
\* raised has no row in backups, and one that has raised is in FAILURE.
C13_BothStoresFail ==
    /\ [][C13_Step]_vars
    /\ [](\A t \in Tasks :
             /\ cur.task = t /\ exc # "none" => ~Recorded(t)
             /\ outcome[t] = "raised" => task_state[t] = "FAILURE" /\ ~Recorded(t))

\* The fallback write failed after the primary upload failed, and the
\* invocation has raised.
C13_Witness ==
    \E t \in Tasks :
        outcome[t] = "raised" /\ task_meta[t] = "OSError" /\ ~Stored(minio, t)

TempFilesOf(task) == {q \in DOMAIN temp_files : q[2] = task}

\* C14: once an invocation has returned or raised, no file of its temporary
\* directory exists.
C14_NoTempFilesLeft ==
    \A t \in Tasks : outcome[t] # "none" => TempFilesOf(t) = {}

\* An invocation raised after pg_dump had run, and another returned.
C14_Witness ==
    /\ \E t \in Tasks : outcome[t] = "raised" /\ t \in dumps
    /\ \E t \in Tasks : outcome[t] = "success"

C15_Step ==
    epc = "record" /\ epc' # "record" /\ backups' = backups
        => /\ epc' = "except"
           /\ exc' # "none"

\* C15: when the record step ends without a row written, the error is
\* propagated to the handler that sets FAILURE and re-raises.
C15_RecordFailureFails == [][C15_Step]_vars

\* C16: an invocation that returned 'success' in state SUCCESS has a row in
\* backups whose storage kind and location name the store that holds its
\* bytes.
C16_SuccessHasRecord ==
    \A t \in Tasks :
        task_state[t] = "SUCCESS" /\ outcome[t] = "success"
            => \E k \in 1..Len(backups) :
                  /\ backups[k].task = t
                  /\ \/ /\ backups[k].storage_type = "minio"
                        /\ \E o \in DOMAIN minio :
                              /\ backups[k].storage_location = <<"s3://", o>>
                              /\ minio[o].dump = t
                     \/ /\ backups[k].storage_type = "local"
                        /\ \E f \in DOMAIN fallback :
                              /\ backups[k].storage_location = f
                              /\ fallback[f].dump = t

StateRank(state) ==
    CASE state = "PENDING" -> 0
      [] state = "PROGRESS" -> 1
      [] OTHER -> 2

C17_Step ==
    \A t \in Tasks :
        /\ StateRank(task_state[t]) <= StateRank(task_state'[t])
        /\ task_state[t] \in {"SUCCESS", "FAILURE"} => task_state'[t] = task_state[t]
        /\ outcome[t] # "none" => outcome'[t] = outcome[t] /\ cur'.task # t
        /\ t \in dumps /\ dumps' # dumps => cur.task # t

\* C17: the state of an invocation only moves forward from PENDING to
\* PROGRESS to SUCCESS or FAILURE and never changes once it is SUCCESS or
\* FAILURE; an invocation that has ended is never run again, and pg_dump is
\* run at most once per invocation.
C17_StatesMoveForward == [][C17_Step]_vars

\* One invocation failed after having been in PROGRESS, another succeeded.
C17_Witness ==
    /\ \E t \in Tasks : task_state[t] = "FAILURE" /\ t \in dumps
    /\ \E t \in Tasks : task_state[t] = "SUCCESS" /\ t \in dumps

\* C18: with neither a key nor a password configured, no invocation runs
\* pg_dump.
C18_FailFastWithoutKey ==
    get_encryption_key(key_source).kind = "BackupError" => dumps = {}

EncryptedArtifact(name, bytes) ==
    /\ name.ext = ".dump.enc"
    /\ bytes.key = get_encryption_key(key_source).key

\* C19: with a key source configured, every artifact in the primary store
\* and in the fallback store is the encrypted dump, under a name that ends
\* in '.enc'.
C19_ArtifactEncrypted ==
    get_encryption_key(key_source).kind = "key"
        => /\ \A o \in DOMAIN minio : EncryptedArtifact(o[2], minio[o])
           /\ \A f \in DOMAIN fallback : EncryptedArtifact(f[2], fallback[f])

Runnable(id) == store[id].present /\ store[id].enabled

C20_Step ==
    tpc = "idle" /\ trig' # trig /\ ~Runnable(trig'.schedule_id)
        => /\ trig'.status = 404
           /\ tpc' = "idle"
           /\ UNCHANGED <<queue, sent, last_run, dumps, cur>>

\* C20: a trigger_backup_for_schedule call for an id whose row is missing
\* or disabled is answered with 404, sends no invocation and leaves last_run
\* as it was.
C20_TriggerNotFound == [][C20_Step]_vars

\* The latest call was for a row that exists and is disabled, and got 404.
C20_Witness ==
    /\ trig.status = 404
    /\ dbUp
    /\ store[trig.schedule_id].present
    /\ ~store[trig.schedule_id].enabled

C21_Step ==
    /\ (dpc = "idle" /\ dpc' # "idle") =>
          (deleted_from_storage' <=>
              filename' \in (DOMAIN minio) \ (DOMAIN minio'))
    /\ (dpc = "local" /\ dpc' = "purge") =>
          /\ ~deleted_from_storage
          /\ deleted_from_storage' <=>
                join(FallbackDir, filename) \in (DOMAIN fallback) \ (DOMAIN fallback')
    /\ (dpc = "purge" /\ dpc' = "idle") =>
          /\ response'.status = 404 <=> ~deleted_from_storage
          /\ deleted_from_storage => response'.status = 200
          /\ purge' = "failed" <=> ~dbUp
          /\ minio' = minio /\ fallback' = fallback

\* C21: delete_backup answers 404 exactly when the call removed nothing from
\* the primary store and nothing from the fallback directory, and answers
\* 200 when it removed something, whether or not its clean-up of the rows
\* succeeded.
C21_NotFoundIffNothingDeleted == [][C21_Step]_vars

C21_Witness ==
    dpc = "idle" /\ response.status = 200 /\ purge = "failed" /\ deleted_in # "none"

\* The rows that record_backup_metadata wrote for a file of the fallback
\* directory named by a path.
FallbackRowOf(row, path) == row.storage_type = "local" /\ <<row.backup_name>> = path

C22_Step ==
    /\ (dpc = "local" /\ deleted_in' = "local") =>
          /\ filename \notin DOMAIN minio
          /\ fallback' = Remove(fallback, join(FallbackDir, filename))
    /\ (dpc = "purge" /\ dpc' = "idle" /\ deleted_in = "local" /\ dbUp) =>
          LET Other(row) == ~FallbackRowOf(row, filename) IN
             /\ backups' = SelectSeq(backups, Other)
             /\ \A k \in 1..Len(backups) :
                   backups[k].storage_location = join(FallbackDir, filename)
                      <=> FallbackRowOf(backups[k], filename)

\* C22: a delete_backup call that removed the file from the fallback
\* directory, the primary store having no such object, and whose clean-up
\* reached the store leaves no row recorded for that file and leaves every
\* other row as it was.
C22_FallbackOnlyDelete == [][C22_Step]_vars

C22_Witness ==
    /\ dpc = "idle" /\ deleted_in = "local" /\ purge = "done" /\ response.status = 200
    /\ outages = 0
    /\ \A t \in Tasks : outcome[t] = "success"
    /\ Len(backups) = 1 /\ backups[1].storage_type = "minio"

C23_Step ==
    (dpc = "purge" /\ dpc' = "idle" /\ deleted_in = "minio" /\ dbUp) =>
       \A k \in 1..Len(backups') :
          ~ /\ backups'[k].storage_type = "minio"
            /\ ObjectName(backups'[k].database_name, backups'[k].backup_name) = filename

\* C23: a delete_backup call that removed an object from the primary store
\* and whose clean-up reached the store leaves no row recorded for that
\* object.
C23_PrimaryRoundTrip == [][C23_Step]_vars

C24_Step ==
    (/\ <<listing', list_request'>> # <<listing, list_request>>
     /\ list_request'.objects = {}
     /\ list_request'.database_name \in {NoDatabase, DbName}) =>
       \A path \in DOMAIN fallback :
          \E k \in 1..Len(listing') :
             /\ listing'[k].storage_type = "local"
             /\ listing'[k].database_name = DbName
             /\ listing'[k].storage_location = path

\* C24: a list_backups call for no database or for the database of the
\* schedules, to which the primary store listed nothing or failed, returns
\* a record of kind local, with that database name, for every file that the
\* executor wrote to the fallback directory.
C24_FallbackListed == [][C24_Step]_vars

\* C25: in the list that list_backups returned, a record without a creation
\* time never precedes a record with one, creation times do not increase,
\* and among equal creation times backup names do not increase.
C25_ListOrdered ==
    \A i, j \in 1..Len(listing) :
       i < j =>
          /\ listing[i].created_at = NoTime => listing[j].created_at = NoTime
          /\ (listing[i].created_at # NoTime /\ listing[j].created_at # NoTime) =>
                listing[i].created_at >= listing[j].created_at
          /\ listing[i].created_at = listing[j].created_at =>
                listing[i].backup_name.timestamp >= listing[j].backup_name.timestamp

\* The expressions of the two classes: five fields, each a non-negative
\* integer or '*', and every other expression.
NonNegative(token) == token \in IntTokens /\ int(token) >= 0

WellFormed(parts) ==
    Len(parts) = 5 /\ \A i \in 1..5 : parts[i] = "*" \/ NonNegative(parts[i])

NamesExpression(message, parts) ==
    /\ Len(message) = 2
    /\ message[1] = "Invalid cron expression: "
    /\ message[2] = parts

\* C26: parse_cron_expression, called with an expression that has not five
\* fields or has a field that is neither a non-negative integer nor '*',
\* raises ValueError with a message that names the expression.
C26_ParseErrorNamesExpression ==
    (parse_result # NotParsed /\ ~WellFormed(parse_arg)) =>
       /\ parse_result.kind = "ValueError"
       /\ NamesExpression(parse_result.message, parse_arg)

\* C27: parse_cron_expression, called with five fields that are each a
\* non-negative integer or '*', returns a crontab whose integer fields have
\* those values and whose '*' fields are unrestricted.
C27_ParseGivesRule ==
    (parse_result # NotParsed /\ WellFormed(parse_arg)) =>
       /\ parse_result.kind = "crontab"
       /\ LET rule == <<parse_result.minute, parse_result.hour, parse_result.day_of_month,
                        parse_result.month_of_year, parse_result.day_of_week>>
          IN \A i \in 1..5 : parse_arg[i] # "*" /\ rule[i] = int(parse_arg[i])

\* The period the specification gives an interval row.
Period(row) ==
    IF row.interval_minutes \in {NoMinutes, 0} THEN DefaultInterval ELSE row.interval_minutes

C28_Step ==
    LET t == "api"
        row == schedules[t][idx[t]]
    IN (/\ pc[t] = "loop" /\ idx[t] <= Len(schedules[t])
        /\ row.schedule_type = "interval"
        /\ <<pc[t], idx[t]>> # <<pc'[t], idx'[t]>>) =>
          /\ pc'[t] = "loop" /\ idx'[t] = idx[t] + 1
          /\ row.id \in DOMAIN beat_schedule'
          /\ beat_schedule'[row.id] = Entry(row.id, timedelta(Period(row)))

C28_Returned ==
    (pc["api"] = "ret" /\ ret["api"] = "True") =>
       \A k \in 1..Len(schedules["api"]) :
          LET row == schedules["api"][k] IN
             row.schedule_type = "interval" =>
                /\ row.id \in DOMAIN beat_schedule
                /\ beat_schedule[row.id].schedule = timedelta(Period(row))

C29_Step ==
    /\ ipc \in {"returned", "degraded"} => UNCHANGED bootVars
    /\ Len(tried') > Len(tried) =>
          /\ tried'[Len(tried')] = "ok" => ipc' = "returned"
          /\ (tried'[Len(tried')] = "failed" /\ Len(tried') < max_retries) => ipc' = "sleep"
          /\ (tried'[Len(tried')] = "failed" /\ Len(tried') = max_retries) => ipc' = "degraded"

C29_Bounded ==
    /\ ipc \in {"off", "attempt", "sleep", "returned", "degraded"}
    /\ Len(tried) <= max_retries
    /\ \A k \in 1..Len(tried) : tried[k] = "ok" => (k = Len(tried) /\ ipc = "returned")
    /\ \A k \in 1..Len(slept) : slept[k] = retry_delay
    /\ Len(slept) = IF ipc \in {"off", "attempt"} THEN Len(tried) ELSE Len(tried) - 1
    /\ ipc = "degraded" => Len(tried) = max_retries

\* C29: init_database makes at most 30 attempts, sleeps 2 seconds after every
\* failed attempt but the last, makes no attempt after one that succeeded,
\* and ends by returning: after the first success or, degraded, after the
\* 30th failure; it never raises.
C29_InitTerminates == [][C29_Step]_vars /\ []C29_Bounded

C29_Witness == ipc = "degraded" /\ Len(tried) = max_retries /\ Len(slept) = max_retries - 1

C30_Step ==
    /\ (tpc = "idle" /\ tpc' # "idle") =>
          /\ tpc' = "update"
          /\ Runnable(trig'.schedule_id)
          /\ UNCHANGED <<queue, sent, last_run>>
    /\ (tpc = "update" /\ tpc' # "update") =>
          /\ tpc' = "delay"
          /\ UNCHANGED <<queue, sent, trig>>
          /\ (dbUp /\ store[trig.schedule_id].present) =>
                last_run' = [last_run EXCEPT ![trig.schedule_id] = now]
    /\ queue' # queue /\ Len(queue') >= Len(queue) =>
          /\ tpc = "delay" /\ tpc' = "idle"
          /\ sent' = sent + 1
          /\ queue' = Append(queue, [task |-> sent', schedule_id |-> trig.schedule_id])
          /\ trig' = [schedule_id |-> trig.schedule_id, status |-> 200, task_id |-> sent']
          /\ UNCHANGED last_run
    /\ (tpc = "delay" /\ tpc' # "delay") => Len(queue') = Len(queue) + 1

\* C30: a trigger_backup_for_schedule call that found its schedule enabled
\* first runs the UPDATE of last_run, which sets last_run to the call's time
\* when the store takes it, and only then sends one invocation, for that
\* schedule id, whose id it returns; nothing else sends invocations.
C30_LastRunThenEnqueue == [][C30_Step]_vars

C30_Witness ==
    /\ tpc = "idle" /\ trig.status = 200
    /\ last_run[trig.schedule_id] = now
    /\ \E k \in 1..Len(queue) :
          queue[k] = [task |-> trig.task_id, schedule_id |-> trig.schedule_id]

\* A step in which the listener's refresh_scheduler() call, having returned
\* False, is left; and a step of the listener on a notification that waits.
C31_Step ==
    /\ (lpc = "refresh" /\ pc["listener"] = "ret" /\ ret["listener"] = "False"
          /\ lpc' # lpc)
       => /\ lpc' = "drain"
          /\ connUp' = connUp /\ subscribed' = subscribed
          /\ channel' = channel /\ notifies' = notifies
          /\ excepted' = excepted /\ sleepLeft' = sleepLeft
    /\ (lpc = "drain" /\ notifies # << >> /\ <<lpc, notifies>>' # <<lpc, notifies>>)
       => /\ notifies' = Tail(notifies)
          /\ lpc' \in {"drain", "refresh"}
          /\ connUp' = connUp /\ subscribed' = subscribed

\* C31: when the refresh made for a notification fails (returns False), the
\* listener goes on with its while conn.notifies loop: it does not go
\* through its except clause, does not sleep, does not close or reopen its
\* connection, keeps its subscription and the notifications that wait, and
\* the next notification is taken from the queue by the same loop.
C31_RefreshFailureKeepsListener == [][C31_Step]_vars

\* The refresh of a first notification returned False and the listener, never
\* having been through its except clause, is refreshing for the next one.
C31_Witness ==
    /\ lastHandled = "refreshed"
    /\ prevVer = 0 - 1
    /\ lpc = "refresh"
    /\ connUp /\ subscribed
    /\ ~excepted

\* A refresh_scheduler call that ran alone has returned: the mapping is what
\* the loop makes of the list the call read, whatever the mapping was before
\* the call.
ReturnsLoopResult ==
    \A t \in Refreshers :
        pc[t] = "ret" => beat_schedule = RefreshLoopResult(schedules[t], EmptyDict)

\* C32: the mapping that a refresh produces is determined by the store
\* contents it read: when a refresh_scheduler call that read the store has
\* returned, the mapping is the one that any refresh reading the same rows
\* produces, in whatever order the server returns them and whatever the
\* previous mapping and the notification were.
C32_MappingFromStoreAlone ==
    \A t \in Refreshers :
        (pc[t] = "ret" /\ read[t].ok)
        => \A rows \in Reorderings(schedules[t]) :
              beat_schedule = RefreshLoopResult(rows, EmptyDict)

\* The steps of one delete_backup call: the primary store is tried first and
\* the fallback directory only when nothing was deleted from it; each step
\* removes at most the one copy named by the identifier; the call answers
\* after the clean-up of the rows was attempted.
C33_Step ==
    /\ (dpc = "idle" /\ dpc' # "idle") =>
          /\ fallback' = fallback /\ backups' = backups
          /\ minio' \in {minio, Remove(minio, filename')}
          /\ dpc' = IF minio' # minio THEN "purge" ELSE "local"
    /\ (dpc = "local" /\ dpc' # "local") =>
          /\ ~deleted_from_storage
          /\ minio' = minio /\ backups' = backups
          /\ fallback' \in {fallback, Remove(fallback, join(FallbackDir, filename))}
          /\ dpc' = "purge"
    /\ (dpc = "purge" /\ dpc' # "purge") =>
          /\ minio' = minio /\ fallback' = fallback
          /\ purge' = IF dbUp THEN "done" ELSE "failed"
          /\ dbUp => \A k \in 1..Len(backups') :
                        backups'[k].storage_location # join(FallbackDir, filename)
    /\ (dpc # "idle" /\ dpc' = "idle") => dpc = "purge" /\ response'.status \in {200, 404}

\* The identifier names a copy in each store when the fallback directory is
\* tried: the copy in the fallback directory stays.
C33_BothStep ==
    (dpc = "local" /\ dpc' # "local" /\ filename \in DOMAIN minio /\ filename \in DOMAIN minio')
    => (join(FallbackDir, filename) \in DOMAIN fallback
           => join(FallbackDir, filename) \in DOMAIN fallback')

C34_Step ==
    (epc = "dump" /\ stderr' # stderr)
    => /\ stderr'[cur.task] \in Stderrs
       /\ exc' = BackupError(stderr'[cur.task])
       /\ epc' = "unwind"
       /\ minio' = minio /\ fallback' = fallback /\ backups' = backups

\* An invocation whose pg_dump exited non-zero: while it runs it is on its
\* way out with the BackupError; once it has ended, it has raised and its
\* state is FAILURE with the text of the BackupError; nothing of it is in
\* the primary store, the fallback directory or the table backups.
C34_Failed ==
    \A t \in Tasks :
        stderr[t] # NoStderr
        => /\ ~Stored(minio, t) /\ ~Stored(fallback, t) /\ ~Recorded(t)
           /\ IF cur.task = t
              THEN epc \in {"unwind", "except"} /\ exc = BackupError(stderr[t])
              ELSE /\ outcome[t] = "raised"
                   /\ task_state[t] = "FAILURE"
                   /\ task_meta[t] = BackupError(stderr[t])

\* C34: when pg_dump exits non-zero, the invocation raises a BackupError
\* whose text holds what pg_dump wrote to stderr, its state ends as FAILURE
\* with that text, and it uploads nothing, writes nothing to the fallback
\* directory and records no row.
C34_DumpFailureFails == [][C34_Step]_vars /\ []C34_Failed

\* Both diagnostics have been seen: one invocation failed with each, and
\* both have ended.
C34_Witness ==
    /\ cur = NoTask
    /\ \A s \in Stderrs : \E t \in Tasks :
          stderr[t] = s /\ task_state[t] = "FAILURE" /\ task_meta[t] = BackupError(s)

\* C35: a refresh_scheduler call, running alone, whose read of the store
\* failed has returned: get_active_schedules gave it the empty list, the
\* call returned True and the mapping is empty, whatever triggers it held
\* before the call and whatever rows the store holds.
C35_OutageEmptiesMapping ==
    \A t \in Refreshers :
        (pc[t] = "ret" /\ ~read[t].ok)
        => /\ schedules[t] = << >>
           /\ ret[t] = "True"
           /\ beat_schedule = EmptyDict

\* Such a call has returned True: the mapping held a trigger before the call,
\* the store still holds the enabled row, and the mapping is empty.
C35_Witness ==
    /\ pc["api"] = "ret" /\ ~read["api"].ok /\ ret["api"] = "True"
    /\ old_schedule["api"] # EmptyDict
    /\ \E i \in EnabledIds(store) : i \in DOMAIN old_schedule["api"]
    /\ beat_schedule = EmptyDict

\* An iteration of the loop of refresh_scheduler in which an exception
\* passes the inner handler: the call returns False and the mapping stays
\* as the iterations before it left it.
C36_Step ==
    \A t \in Refreshers :
        (pc[t] = "loop" /\ idx[t] <= Len(schedules[t]) /\ Iterate(t).kind = "raise"
           /\ <<pc[t], idx[t]>>' # <<pc[t], idx[t]>>)
        => /\ pc'[t] = "ret" /\ ret'[t] = "False"
           /\ beat_schedule' = beat_schedule

\* A refresh_scheduler call that ran alone has returned: with True or with
\* False; if with False, the mapping holds the entries of the rows that
\* came before the row that raised, and nothing else.
C36_Returned ==
    \A t \in Refreshers :
        pc[t] = "ret"
        => /\ ret[t] \in {"True", "False"}
           /\ ret[t] = "False"
              => /\ idx[t] <= Len(schedules[t])
                 /\ TranslateRow(schedules[t][idx[t]]).kind = "raise"
                 /\ beat_schedule = Rebuilt(SubSeq(schedules[t], 1, idx[t] - 1))

\* C36: refresh_scheduler does not raise: an error during the rebuild makes
\* it return False; the mapping from before the call is not put back, and
\* after the False return the mapping holds exactly the triggers that were
\* registered before the error, possibly none.
C36_FalseKeepsPartialMapping == [][C36_Step]_vars /\ []C36_Returned

\* A call has returned False; the mapping from before the call held a
\* trigger, and the mapping is not that one.
C36_Witness ==
    /\ pc["api"] = "ret" /\ ret["api"] = "False"
    /\ old_schedule["api"] # EmptyDict
    /\ beat_schedule # old_schedule["api"]

\* What the listener and refresh_scheduler do to the store and to the
\* channel, and where notifications come from.
C37_Step ==
    /\ (lpc' # lpc \/ pc' # pc)
       => /\ store' = store /\ storeVer' = storeVer /\ last_run' = last_run
          /\ Len(channel') <= Len(channel)
    /\ Len(channel') > Len(channel)
       => /\ Len(channel') = Len(channel) + 1
          /\ \/ storeVer' = storeVer + 1
             \/ tpc = "update" /\ tpc' = "delay" /\ store[trig.schedule_id].present
    /\ (store' # store \/ last_run' # last_run)
       => \/ storeVer' = storeVer + 1 /\ last_run' = last_run
          \/ tpc = "update" /\ store' = store
    /\ (pc["listener"] = "idle" /\ pc'["listener"] # "idle")
       => /\ notifies # << >> /\ notifies' = Tail(notifies)
          /\ channel' = channel

\* Nothing is left to refresh for.
C37_Quiet == pc["listener"] = "idle" /\ channel = << >> /\ notifies = << >>

\* C37: refresh_scheduler and the listener never write to backup_schedules
\* and never send a notification; a row is written by a committed mutation
\* of a client or by the last_run UPDATE of trigger_backup_for_schedule, each
\* write sends one notification, and the listener starts one refresh per
\* notification it takes; so once the writes have stopped the listener
\* comes to rest with nothing left to refresh for.
C37_CycleQuiesces == [][C37_Step]_vars /\ <>[]C37_Quiet

\* The listener is refreshing for the notification of a last_run UPDATE and
\* no other notification waits.
C37_Witness ==
    /\ lpc = "refresh"
    /\ data.kind = "object" /\ data.action = "updated"
    /\ channel = << >> /\ notifies = << >>
    /\ tpc = "idle" /\ trig.status = 200

\* C38: the invocations of the executor leave artifacts of their own: no two
\* rows of the table backups have the same storage location, and the
\* artifact of every invocation that ended with success is in the store it
\* was written to (nothing deletes artifacts here), not replaced by the
\* artifact of another invocation.
C38_UniqueArtifacts ==
    /\ \A j, k \in 1..Len(backups) :
          j # k => backups[j].storage_location # backups[k].storage_location
    /\ \A t \in Tasks :
          outcome[t] = "success" => Stored(minio, t) \/ Stored(fallback, t)

\* The resolve step of an invocation, and the steps that run pg_dump.
C39_Step ==
    /\ (epc = "resolve" /\ epc' # "resolve" /\ dbUp /\ ~Runnable(cur.schedule_id))
       => /\ outcome'[cur.task] = "skipped"
          /\ cur' = NoTask
          /\ dumps' = dumps /\ cur.task \notin dumps
          /\ temp_files' = temp_files
          /\ minio' = minio /\ fallback' = fallback /\ backups' = backups
    /\ (epc = "resolve" /\ epc' # "resolve" /\ dbUp /\ Runnable(cur.schedule_id))
       => epc' = "dump"
    /\ (epc # "dump" /\ epc' = "dump")
       => epc = "resolve" /\ Runnable(cur.schedule_id)
    /\ dumps' # dumps
       => epc = "dump" /\ dumps' = dumps \cup {cur.task}

\* C39: an invocation, sent by a trigger of the mapping or by a manual
\* trigger, whose schedule row is deleted or disabled when the executor
\* reads it runs no dump and leaves nothing, whether or not the mapping
\* still holds a trigger for the schedule; and an invocation whose row is
\* there and enabled goes on to the dump, whether or not the mapping holds
\* a trigger for it: pg_dump runs only after that check.
C39_StaleTriggerSkipped == [][C39_Step]_vars

\* No manual trigger was ever made; an invocation sent by a trigger of the
\* mapping was skipped without a dump, and the mapping still holds the
\* trigger of a schedule that is deleted or disabled.
C39_Witness ==
    /\ trig = NoTrigger
    /\ \E t \in Tasks : outcome[t] = "skipped" /\ t \notin dumps
    /\ \E key \in DOMAIN beat_schedule : ~Runnable(key)

\* setup_periodic_tasks: how setup_scheduler is left, and who starts the
\* listener.
C40_Step ==
    /\ (pc["main"] = "setup_loop" /\ pc'["main"] # "setup_loop")
       => IF idx["main"] > Len(schedules["main"])
          THEN pc'["main"] = "start_check" /\ beat_schedule' = beat_schedule
          ELSE /\ Iterate("main").kind = "raise"
               /\ pc'["main"] = "done"
               /\ beat_schedule' = beat_schedule
               /\ lpc' = lpc /\ listener_thread' = listener_thread
               /\ created' = created /\ alive' = alive
    /\ (pc["main"] # "start_check" /\ pc'["main"] = "start_check")
       => pc["main"] = "setup_loop" /\ idx["main"] > Len(schedules["main"])
    /\ (lpc = "off" /\ lpc' # "off")
       => \E c \in {"main", "other"} : pc[c] = "start_run" /\ pc'[c] = "done"
    /\ (pc["other"] \in {"idle", "done"} /\ pc'["other"] = "start_check")
       => startCalls'["other"] = startCalls["other"] + 1

\* While no other call of start_schedule_listener was made: no listener runs
\* before setup_scheduler has returned, nor after it has raised.
C40_NoListener ==
    startCalls["other"] = 0
    => /\ pc["main"] \in {"setup_clear", "setup_fetch", "setup_loop", "start_check"}
          => lpc = "off" /\ created = 0
       /\ (pc["main"] = "done" /\ created = 0) => lpc = "off"

====
